---- MODULE Spec2Model ----
(***************************************************************************)
(* A model of the adelie memory subsystem: the bus decoder (IO), the       *)
(* memory-mapped devices behind it, and the cartridge mappers with their   *)
(* construction-time validation.                                           *)
(*                                                                         *)
(* Bytes are 0..255 and addresses 0..65535; every arithmetic step keeps    *)
(* the width the source gives it.  A Rust panic (slice index out of range, *)
(* unwrap of None, todo!(), debug-build arithmetic overflow) ends the      *)
(* program: it is recorded in `status` and no further operation runs.      *)
(***************************************************************************)
EXTENDS Integers, Sequences, FiniteSets, TLC

VARIABLES
    io,      \* the bus decoder: model, fixed memory blocks, I/O registers
    cart,    \* the cartridge (a mapper's state, or "None" before construction)
    args,    \* the inputs handed to a mapper constructor
    out,     \* what the last operation did and returned
    hist,    \* observations of the operations so far (history only)
    build,   \* "debug" or "release": decides what an arithmetic overflow does
    status,  \* "running", or "panicked" once an operation has panicked
    emu      \* the Emulator's own fields: the clock level and the cycle counter

vars == <<io, cart, args, out, hist, build, status, emu>>

----------------------------------------------------------------------------
(* Bit arithmetic on naturals. *)

RECURSIVE And(_, _)
And(a, b) ==
    IF a = 0 \/ b = 0 THEN 0
    ELSE (a % 2) * (b % 2) + 2 * And(a \div 2, b \div 2)

Byte == 0..255
Address == 0..65535

\* A byte array that starts zeroed, kept as the map of its non-zero cells.
Zeroed == [o \in {} |-> 0]

Get(m, o) == IF o \in DOMAIN m THEN m[o] ELSE 0

Put(m, o, v) ==
    IF v = 0 THEN [x \in DOMAIN m \ {o} |-> m[x]]
    ELSE [x \in DOMAIN m \cup {o} |-> IF x = o THEN v ELSE m[x]]

\* The value a read returns when the operation panicked instead.
PANIC == -1

----------------------------------------------------------------------------
(* instance/io.rs: the address windows. *)

CARTRIDGE_ROM_START == 0
CARTRIDGE_ROM_MAIN_BANK_END == 16383
CARTRIDGE_ROM_END == 32767
VRAM_START == 32768
VRAM_END == 40959
CARTRIDGE_RAM_START == 40960
CARTRIDGE_RAM_END == 49151
WRAM_START == 49152
WRAM_END == 65023
OAM_START == 65024
OAM_END == 65183
HRAM_START == 65408
HRAM_END == 65534

Within(address, lo, hi) == lo <= address /\ address <= hi

\* The patterns of the outer match of resolve_address_to_device, in order.
AddressWindows ==
    << <<CARTRIDGE_ROM_START, CARTRIDGE_ROM_END>>,
       <<VRAM_START, VRAM_END>>,
       <<CARTRIDGE_RAM_START, CARTRIDGE_RAM_END>>,
       <<WRAM_START, WRAM_END>>,
       <<OAM_START, OAM_END>>,
       <<\hFEA0, \hFEFF>>,
       <<\hFF00, \hFFFF>> >>

\* Whether two arms of the outer match share an address.
WindowsOverlap(i, j) ==
    /\ AddressWindows[i][1] <= AddressWindows[j][2]
    /\ AddressWindows[j][1] <= AddressWindows[i][2]

\* Model::is_cgb answering true for every model.
is_cgb_any_model(m) == TRUE

\* Model::is_cgb
is_cgb(m) == m = "CGB"

\* The inner match on the low byte of an address in 0xFF00..0xFFFF, arm by
\* arm in the order of the source; the first arm that matches decides.
resolve_io_register(m, low) ==
    IF Within(low, \h80, \hFE) THEN "high_ram"
    ELSE IF low = \h00 THEN "joypad_data"
    ELSE IF low = \h01 \/ low = \h02 THEN "serial_transfer"
    ELSE IF Within(low, \h04, \h07) THEN "timer_div"
    ELSE IF low = \h0F THEN "interrupts"
    ELSE IF Within(low, \h10, \h26) THEN "audio"
    ELSE IF Within(low, \h27, \h2F) THEN "unused"
    ELSE IF Within(low, \h30, \h3F) THEN "wave_pattern"
    ELSE IF low = \h46 THEN "oam_dma"
    ELSE IF Within(low, \h40, \h4B) THEN "lcd"
    ELSE IF low = \h50 THEN "disable_bootrom"
    ELSE IF low = \hFF THEN "interrupts"
    ELSE IF low = \h03 THEN "unused"
    ELSE IF Within(low, \h08, \h0E) THEN "unused"
    ELSE IF low = \h4C THEN "unused"
    ELSE IF low = \h4E THEN "unused"
    ELSE IF Within(low, \h57, \h67) THEN "unused"
    ELSE IF Within(low, \h6D, \h6F) THEN "unused"
    ELSE IF Within(low, \h71, \h7F) THEN "unused"
    ELSE IF ~is_cgb(m) THEN "unused"
    ELSE IF low = \h4D THEN "prepare_speed_switch"
    ELSE IF low = \h4F THEN "video_ram_bank"
    ELSE IF Within(low, \h51, \h55) THEN "vram_dma"
    ELSE IF low = \h56 THEN "infrared"
    ELSE IF Within(low, \h68, \h6B) THEN "bg_obj_palettes"
    ELSE IF low = \h6C THEN "object_priority"
    ELSE IF low = \h70 THEN "work_ram_bank"
    ELSE "unresolved"

\* The cartridge-ROM arm, with the boot-ROM overlay.
resolve_rom_window(s, address) ==
    IF s.registers.disable_bootrom.byte # 0
       /\ (address < \h100 \/ (address >= \h300 /\ is_cgb(s.model)))
    THEN "boot_rom"
    ELSE "cartridge"

\* The outer match without its 0xFEA0..=0xFEFF arm.
resolve_no_dma_gap(s, address) ==
    IF Within(address, CARTRIDGE_ROM_START, CARTRIDGE_ROM_END)
    THEN resolve_rom_window(s, address)
    ELSE IF Within(address, VRAM_START, VRAM_END) THEN "video_ram"
    ELSE IF Within(address, CARTRIDGE_RAM_START, CARTRIDGE_RAM_END) THEN "cartridge"
    ELSE IF Within(address, WRAM_START, WRAM_END) THEN "work_ram"
    ELSE IF Within(address, OAM_START, OAM_END) THEN "oam"
    ELSE IF Within(address, \hFF00, \hFFFF)
    THEN resolve_io_register(s.model, address % 256)
    ELSE "unresolved"

\* The outer match, taken when no OAM DMA is in progress.
resolve_no_dma(s, address) ==
    IF Within(address, CARTRIDGE_ROM_START, CARTRIDGE_ROM_END)
    THEN resolve_rom_window(s, address)
    ELSE IF Within(address, VRAM_START, VRAM_END) THEN "video_ram"
    ELSE IF Within(address, CARTRIDGE_RAM_START, CARTRIDGE_RAM_END) THEN "cartridge"
    ELSE IF Within(address, WRAM_START, WRAM_END) THEN "work_ram"
    ELSE IF Within(address, OAM_START, OAM_END) THEN "oam"
    ELSE IF Within(address, \hFEA0, \hFEFF) THEN "no_access"
    ELSE IF Within(address, \hFF00, \hFFFF)
    THEN resolve_io_register(s.model, address % 256)
    ELSE "unresolved"

\* The lockout taking the cartridge arm on either model.
resolve_dma_any_model(s, address) ==
    IF Within(address, HRAM_START, HRAM_END) THEN "high_ram"
    ELSE IF Within(address, CARTRIDGE_ROM_START, CARTRIDGE_ROM_END)
            \/ Within(address, CARTRIDGE_RAM_START, CARTRIDGE_RAM_END)
    THEN "cartridge"
    ELSE "no_access"

\* The lockout leaving the I/O register page decoded as usual.
resolve_dma_registers_open(s, address) ==
    IF Within(address, HRAM_START, HRAM_END) THEN "high_ram"
    ELSE IF address \div 256 = \hFF
    THEN resolve_io_register(s.model, address % 256)
    ELSE IF is_cgb(s.model)
            /\ (Within(address, CARTRIDGE_ROM_START, CARTRIDGE_ROM_END)
                \/ Within(address, CARTRIDGE_RAM_START, CARTRIDGE_RAM_END))
    THEN "cartridge"
    ELSE "no_access"

\* The lockout taken while an OAM DMA is in progress.
resolve_dma(s, address) ==
    IF Within(address, HRAM_START, HRAM_END) THEN "high_ram"
    ELSE IF is_cgb(s.model)
            /\ (Within(address, CARTRIDGE_ROM_START, CARTRIDGE_ROM_END)
                \/ Within(address, CARTRIDGE_RAM_START, CARTRIDGE_RAM_END))
    THEN "cartridge"
    ELSE "no_access"

resolve_address_to_device(s, address) ==
    IF s.registers.oam_dma.in_progress
    THEN resolve_dma(s, address)
    ELSE resolve_no_dma(s, address)

\* Every device of the decoder.
Devices ==
    {"cartridge", "boot_rom", "video_ram", "work_ram", "oam", "high_ram",
     "no_access", "joypad_data", "serial_transfer", "timer_div", "interrupts",
     "audio", "wave_pattern", "lcd", "oam_dma", "disable_bootrom", "vram_dma",
     "bg_obj_palettes", "prepare_speed_switch", "infrared", "object_priority",
     "unused", "video_ram_bank", "work_ram_bank"}

----------------------------------------------------------------------------
(* memory.rs and instance/io.rs: the devices behind the decoder. *)

Model == {"DMG", "CGB"}

BOOT_ROM_LOW_SIZE == 256

\* The boot ROM image handed to Emulator::new: byte i of the contiguous
\* buffer (low region, then high region).
BootROMData(i) == 1 + (i % 251)

\* IORegisters::default() and the Default of every fixed block.
IORegistersDefault ==
    [ joypad_data |-> [select_buttons |-> FALSE, select_dpad |-> FALSE,
                       a |-> FALSE, b |-> FALSE, start |-> FALSE,
                       select |-> FALSE, up |-> FALSE, down |-> FALSE,
                       left |-> FALSE, right |-> FALSE],
      timer_div |-> [value |-> <<0, 0, 0, 0>>],
      interrupts |-> [interrupt_enabled |-> 0, interrupt_requested |-> 0],
      lcd |-> [lcdc |-> 0, unused |-> 0],
      oam_dma |-> [address |-> 0, in_progress |-> FALSE],
      disable_bootrom |-> [byte |-> 0],
      object_priority |-> [byte |-> 0] ]

\* The fields Emulator::new sets beside io.
EmulatorNew == [soc_clock_high |-> FALSE, soc_clock |-> 0]

\* The IO that Emulator::new builds.
IONew(m) ==
    [ model |-> m,
      double_speed_mode |-> FALSE,
      registers |-> IORegistersDefault,
      video_ram |-> [memory |-> Zeroed, bank |-> [byte |-> 0]],
      work_ram |-> [memory |-> Zeroed, bank |-> [byte |-> 1]],
      oam |-> [memory |-> Zeroed],
      high_ram |-> [memory |-> Zeroed] ]

\* VideoRAM::resolve_address_to_byte
VideoRAM_offset(v, addr) ==
    And(v.bank.byte, 1) * \h2000 + And(addr, \h1FFF)

\* WorkRAM::resolve_address_to_byte
WorkRAM_offset(w, addr) ==
    (IF And(addr, \h1000) = 0 THEN 0 ELSE And(w.bank.byte, 7) * \h1000)
    + And(addr, \hFFF)

\* BootROM::read; outside both regions the debug assertion fails.
BootROM_read(address) ==
    IF address < BOOT_ROM_LOW_SIZE THEN BootROMData(address)
    ELSE IF address >= \h200 /\ address <= \h8FF
    THEN BootROMData(BOOT_ROM_LOW_SIZE + (address - \h200))
    ELSE IF build = "debug" THEN PANIC ELSE \hFF

\* LCDData::resolve_address_to_byte: the field an address names, "todo"
\* where the source panics with todo!().
LCDData_field(address) ==
    LET n == And(address, \hF) IN
    IF n = 0 THEN "lcdc"
    ELSE IF n \in {1, 2, 3, 4, 5, 7, 8, 9, 10} THEN "todo"
    ELSE "unused"

\* Interrupts::resolve_address_to_byte
Interrupts_field(address) ==
    IF And(address, \hF0) = 0 THEN "interrupt_requested" ELSE "interrupt_enabled"

Bit(b, n) == IF b THEN n ELSE 0

\* JoypadData::read clearing the bits of pressed inputs of either group.
JoypadData_read_ungated(j) ==
    LET dpad == Bit(j.right, 1) + Bit(j.left, 2) + Bit(j.up, 4) + Bit(j.down, 8)
        btns == Bit(j.a, 1) + Bit(j.b, 2) + Bit(j.select, 4) + Bit(j.start, 8)
        clear == dpad + btns - And(dpad, btns)
    IN  (15 - clear) + Bit(j.select_dpad, 16) + Bit(j.select_buttons, 32)

\* JoypadData::read
JoypadData_read(j) ==
    LET dpad == IF j.select_dpad
                THEN Bit(j.right, 1) + Bit(j.left, 2) + Bit(j.up, 4) + Bit(j.down, 8)
                ELSE 0
        btns == IF j.select_buttons
                THEN Bit(j.a, 1) + Bit(j.b, 2) + Bit(j.select, 4) + Bit(j.start, 8)
                ELSE 0
        clear == dpad + btns - And(dpad, btns)
    IN  (15 - clear) + Bit(j.select_dpad, 16) + Bit(j.select_buttons, 32)

\* DisableBootROM::write
DisableBootROM_write(d, data) ==
    IF d.byte # 0 THEN [d EXCEPT !.byte = data] ELSE d

\* OAMDMA::write keeping the byte in the low half of the address.
OAMDMA_write_unshifted(data) == [address |-> data, in_progress |-> TRUE]

\* OAMDMA::write
OAMDMA_write(data) == [address |-> data * 256, in_progress |-> TRUE]

\* TimerDIV::write with the counter arm storing the byte.
TimerDIV_write_counter_stored(t, address, data) ==
    LET n == And(address, 3) IN
    IF n = 0 THEN [t EXCEPT !.value[1] = 0]
    ELSE [t EXCEPT !.value[n + 1] = data]

\* TimerDIV::write
TimerDIV_write(t, address, data) ==
    LET n == And(address, 3) IN
    IF n = 0 THEN [t EXCEPT !.value[1] = 0]
    ELSE IF n = 1 THEN t
    ELSE IF n = 2 THEN [t EXCEPT !.value[3] = data]
    ELSE [t EXCEPT !.value[4] = data]

\* The devices that keep nothing: StubbedInterface<V> and NullMemory
\* (set_data_lines does nothing, read_out returns the constant).
StubValue ==
    [ serial_transfer |-> 0, audio |-> 0, wave_pattern |-> 0, vram_dma |-> 0,
      bg_obj_palettes |-> 0, prepare_speed_switch |-> 0, infrared |-> 2,
      unused |-> \hFF, no_access |-> \hFF ]

\* set_data_lines(address, true, data) on a device other than the cartridge:
\* the decoder's state afterwards, and whether the device panicked.
DeviceWrite(s, dev, address, data) ==
    LET ok(t) == [io |-> t, panic |-> FALSE] IN
    CASE dev = "video_ram" ->
            ok([s EXCEPT !.video_ram.memory =
                    Put(@, VideoRAM_offset(s.video_ram, address), data)])
      [] dev = "work_ram" ->
            ok([s EXCEPT !.work_ram.memory =
                    Put(@, WorkRAM_offset(s.work_ram, address), data)])
      [] dev = "oam" ->
            ok([s EXCEPT !.oam.memory = Put(@, And(address, \hFF), data)])
      [] dev = "high_ram" ->
            ok([s EXCEPT !.high_ram.memory = Put(@, And(address, \h7F), data)])
      [] dev = "video_ram_bank" -> ok([s EXCEPT !.video_ram.bank.byte = data])
      [] dev = "work_ram_bank" -> ok([s EXCEPT !.work_ram.bank.byte = data])
      [] dev = "object_priority" ->
            ok([s EXCEPT !.registers.object_priority.byte = data])
      [] dev = "joypad_data" ->
            ok([s EXCEPT !.registers.joypad_data.select_dpad = And(data, 16) # 0,
                         !.registers.joypad_data.select_buttons = And(data, 32) # 0])
      [] dev = "timer_div" ->
            ok([s EXCEPT !.registers.timer_div = TimerDIV_write(@, address, data)])
      [] dev = "interrupts" ->
            ok([s EXCEPT !.registers.interrupts[Interrupts_field(address)] = data])
      [] dev = "lcd" ->
            IF LCDData_field(address) = "todo" THEN [io |-> s, panic |-> TRUE]
            ELSE ok([s EXCEPT !.registers.lcd[LCDData_field(address)] = data])
      [] dev = "oam_dma" -> ok([s EXCEPT !.registers.oam_dma = OAMDMA_write(data)])
      [] dev = "disable_bootrom" ->
            ok([s EXCEPT !.registers.disable_bootrom = DisableBootROM_write(@, data)])
      [] OTHER -> ok(s)   \* boot_rom (read-only), the stubs, no_access

\* set_data_lines(address, false, _) then read_out() on a device other than
\* the cartridge: the byte returned, or PANIC.
DeviceRead(s, dev, address) ==
    CASE dev = "boot_rom" -> BootROM_read(address)
      [] dev = "video_ram" -> Get(s.video_ram.memory, VideoRAM_offset(s.video_ram, address))
      [] dev = "work_ram" -> Get(s.work_ram.memory, WorkRAM_offset(s.work_ram, address))
      [] dev = "oam" -> Get(s.oam.memory, And(address, \hFF))
      [] dev = "high_ram" -> Get(s.high_ram.memory, And(address, \h7F))
      [] dev = "video_ram_bank" -> s.video_ram.bank.byte
      [] dev = "work_ram_bank" -> s.work_ram.bank.byte
      [] dev = "object_priority" -> s.registers.object_priority.byte
      [] dev = "joypad_data" -> JoypadData_read(s.registers.joypad_data)
      [] dev = "timer_div" -> s.registers.timer_div.value[And(address, 3) + 1]
      [] dev = "interrupts" -> s.registers.interrupts[Interrupts_field(address)]
      [] dev = "lcd" ->
            IF LCDData_field(address) = "todo" THEN PANIC
            ELSE s.registers.lcd[LCDData_field(address)]
      [] dev = "oam_dma" -> s.registers.oam_dma.address \div 256
      [] dev = "disable_bootrom" -> s.registers.disable_bootrom.byte
      [] OTHER -> StubValue[dev]

----------------------------------------------------------------------------
(* cartridge.rs: the header, and cartridge/mbc.rs: validation. *)

\* A ROM image is kept as its length and the header bytes that are parsed:
\* 0x147 (cartridge type), 0x148 (ROM size), 0x149 (RAM size).  Every other
\* byte is the fill of its 16 KiB bank (0xAA, 0xBB, 0xCC, ...).
RomImage(len, h47, h48, h49) == [len |-> len, h47 |-> h47, h48 |-> h48, h49 |-> h49]

RomData(rom, o) ==
    IF o = \h147 THEN rom.h47
    ELSE IF o = \h148 THEN rom.h48
    ELSE IF o = \h149 THEN rom.h49
    ELSE And(\hAA + \h11 * (o \div \h4000), \hFF)

\* The match on header[0x47]: <<mapper, has_ram, has_save_data, has_rumble, has_rtc>>.
CartridgeTypeTable ==
    [ b \in {\h00, \h01, \h02, \h03, \h05, \h06, \h08, \h09, \h0F, \h10, \h11,
             \h12, \h13, \h19, \h1A, \h1B, \h1C, \h1D, \h1E, \h20, \h22} |->
        CASE b = \h00 -> <<"ROMOnly", FALSE, FALSE, FALSE, FALSE>>
          [] b = \h01 -> <<"MBC1", FALSE, FALSE, FALSE, FALSE>>
          [] b = \h02 -> <<"MBC1", TRUE, FALSE, FALSE, FALSE>>
          [] b = \h03 -> <<"MBC1", TRUE, TRUE, FALSE, FALSE>>
          [] b = \h05 -> <<"MBC2", FALSE, FALSE, FALSE, FALSE>>
          [] b = \h06 -> <<"MBC2", FALSE, TRUE, FALSE, FALSE>>
          [] b = \h08 -> <<"ROMOnly", TRUE, FALSE, FALSE, FALSE>>
          [] b = \h09 -> <<"ROMOnly", TRUE, TRUE, FALSE, FALSE>>
          [] b = \h0F -> <<"MBC3", FALSE, FALSE, FALSE, TRUE>>
          [] b = \h10 -> <<"MBC3", TRUE, TRUE, FALSE, TRUE>>
          [] b = \h11 -> <<"MBC3", FALSE, FALSE, FALSE, FALSE>>
          [] b = \h12 -> <<"MBC3", TRUE, FALSE, FALSE, FALSE>>
          [] b = \h13 -> <<"MBC3", TRUE, TRUE, FALSE, FALSE>>
          [] b = \h19 -> <<"MBC5", FALSE, FALSE, FALSE, FALSE>>
          [] b = \h1A -> <<"MBC5", TRUE, FALSE, FALSE, FALSE>>
          [] b = \h1B -> <<"MBC5", TRUE, TRUE, FALSE, FALSE>>
          [] b = \h1C -> <<"MBC5", FALSE, FALSE, TRUE, FALSE>>
          [] b = \h1D -> <<"MBC5", TRUE, FALSE, TRUE, FALSE>>
          [] b = \h1E -> <<"MBC5", TRUE, TRUE, TRUE, FALSE>>
          [] b = \h20 -> <<"MBC6", FALSE, FALSE, FALSE, FALSE>>
          [] b = \h22 -> <<"MBC7", TRUE, TRUE, TRUE, FALSE>> ]

HeaderError(e, n) == [ok |-> FALSE, err |-> e, byte |-> n]

\* The parse with the ROM size taken as 32 KiB shifted left by the byte.
read_cartridge_header_rom_shifted(h47, h48, h49) ==
    IF h47 \notin DOMAIN CartridgeTypeTable THEN HeaderError("UnknownMapper", h47)
    ELSE
    LET ct == CartridgeTypeTable[h47]
        fixed == ct[1] = "MBC2" \/ ct[1] = "MBC7"
    IN  IF ~fixed /\ ct[2] /\ h49 \notin {2, 3, 4, 5}
        THEN HeaderError("UnknownRAMSize", h49)
        ELSE IF h48 > 8 THEN HeaderError("UnknownROMSize", h48)
        ELSE [ ok |-> TRUE,
               mapper_type |-> ct[1],
               rom_size |-> 32 * 1024 * (2 ^ h48),
               ram_size |-> IF fixed THEN 256
                            ELSE IF ~ct[2] THEN 0
                            ELSE IF h49 = 2 THEN 8 * 1024
                            ELSE IF h49 = 3 THEN 32 * 1024
                            ELSE IF h49 = 4 THEN 128 * 1024
                            ELSE 64 * 1024,
               has_rtc |-> ct[5],
               has_save_data |-> ct[3],
               has_rumble |-> ct[4] ]

\* The parse with the RAM-size table entries of 4 and 5 in numeric order.
read_cartridge_header_ram_in_order(h47, h48, h49) ==
    IF h47 \notin DOMAIN CartridgeTypeTable THEN HeaderError("UnknownMapper", h47)
    ELSE
    LET ct == CartridgeTypeTable[h47]
        fixed == ct[1] = "MBC2" \/ ct[1] = "MBC7"
    IN  IF ~fixed /\ ct[2] /\ h49 \notin {2, 3, 4, 5}
        THEN HeaderError("UnknownRAMSize", h49)
        ELSE IF h48 > 8 THEN HeaderError("UnknownROMSize", h48)
        ELSE [ ok |-> TRUE,
               mapper_type |-> ct[1],
               rom_size |-> 32 * 1024 * h48,
               ram_size |-> IF fixed THEN 256
                            ELSE IF ~ct[2] THEN 0
                            ELSE IF h49 = 2 THEN 8 * 1024
                            ELSE IF h49 = 3 THEN 32 * 1024
                            ELSE IF h49 = 4 THEN 64 * 1024
                            ELSE 128 * 1024,
               has_rtc |-> ct[5],
               has_save_data |-> ct[3],
               has_rumble |-> ct[4] ]

\* CartridgeHeaderInfo::read_cartridge_header, on the three bytes it
\* classifies by (the logo and checksum only feed `bootable`).
read_cartridge_header(h47, h48, h49) ==
    IF h47 \notin DOMAIN CartridgeTypeTable THEN HeaderError("UnknownMapper", h47)
    ELSE
    LET ct == CartridgeTypeTable[h47]
        fixed == ct[1] = "MBC2" \/ ct[1] = "MBC7"
    IN  IF ~fixed /\ ct[2] /\ h49 \notin {2, 3, 4, 5}
        THEN HeaderError("UnknownRAMSize", h49)
        ELSE IF h48 > 8 THEN HeaderError("UnknownROMSize", h48)
        ELSE [ ok |-> TRUE,
               mapper_type |-> ct[1],
               rom_size |-> 32 * 1024 * h48,
               ram_size |-> IF fixed THEN 256
                            ELSE IF ~ct[2] THEN 0
                            ELSE IF h49 = 2 THEN 8 * 1024
                            ELSE IF h49 = 3 THEN 32 * 1024
                            ELSE IF h49 = 4 THEN 128 * 1024
                            ELSE 64 * 1024,
               has_rtc |-> ct[5],
               has_save_data |-> ct[3],
               has_rumble |-> ct[4] ]

LoadError(e) == [ok |-> FALSE, err |-> e]

\* get_header_data_from_rom
get_header_data_from_rom(rom) ==
    IF rom.len < \h150 THEN LoadError("CannotIdentifyCartridgeType")
    ELSE LET h == read_cartridge_header(rom.h47, rom.h48, rom.h49)
         IN  IF h.ok THEN h ELSE LoadError("CannotIdentifyCartridgeType")

\* validate with the ROM-length check dropped.
validate_no_rom_check(rom, ram_len, expected_mapper_type) ==
    LET info == get_header_data_from_rom(rom) IN
    IF ~info.ok THEN info
    ELSE IF info.mapper_type # expected_mapper_type THEN LoadError("IncorrectMapper")
    ELSE IF ram_len # info.ram_size THEN LoadError("IncorrectRAMSize")
    ELSE info

\* validate
validate(rom, ram_len, expected_mapper_type) ==
    LET info == get_header_data_from_rom(rom) IN
    IF ~info.ok THEN info
    ELSE IF info.mapper_type # expected_mapper_type THEN LoadError("IncorrectMapper")
    ELSE IF rom.len # info.rom_size THEN LoadError("IncorrectROMSize")
    ELSE IF ram_len # info.ram_size THEN LoadError("IncorrectRAMSize")
    ELSE info

TYPICAL_ROM_BANK_SIZE == 16384
TYPICAL_RAM_BANK_SIZE == 8192

\* double_bank_rom_offset
double_bank_rom_offset(address, bank0, bank1) ==
    IF address <= CARTRIDGE_ROM_MAIN_BANK_END
    THEN TYPICAL_ROM_BANK_SIZE * bank0 + address
    ELSE TYPICAL_ROM_BANK_SIZE * bank1 + And(address, TYPICAL_ROM_BANK_SIZE - 1)

\* typical_rom_offset
typical_rom_offset(address, bank) == double_bank_rom_offset(address, 0, bank)

\* typical_ram_offset
typical_ram_offset(address, bank) ==
    TYPICAL_RAM_BANK_SIZE * bank + And(address, TYPICAL_RAM_BANK_SIZE - 1)

\* rom[offset]: indexing past the end of the slice panics.
RomIndex(rom, offset) == IF offset < rom.len THEN RomData(rom, offset) ELSE PANIC

\* ram[offset] of a slice of ram_len bytes.
RamIndex(ram, ram_len, offset) == IF offset < ram_len THEN Get(ram, offset) ELSE PANIC

Clamp(v, lo, hi) == IF v < lo THEN lo ELSE IF v > hi THEN hi ELSE v

Ok(c) == [cart |-> c, panic |-> FALSE]
Panicked(c) == [cart |-> c, panic |-> TRUE]

----------------------------------------------------------------------------
(* cartridge/mbc/no_rom.rs *)

\* NoROM::new
NoROM_new(rom, ram_len) ==
    LET info == validate(rom, ram_len, "ROMOnly") IN
    IF ~info.ok THEN info
    ELSE [ok |-> TRUE,
          cart |-> [kind |-> "NoROM", rom |-> rom, ram_len |-> ram_len, ram |-> Zeroed]]

\* NoROM::read
NoROM_read(c, address) ==
    IF address <= CARTRIDGE_ROM_END THEN RomIndex(c.rom, address)
    ELSE IF c.ram_len = 0 THEN \hFF
    ELSE RamIndex(c.ram, c.ram_len, typical_ram_offset(address, 0))

\* NoROM::write
NoROM_write(c, address, data) ==
    IF address <= CARTRIDGE_ROM_MAIN_BANK_END \/ c.ram_len = 0 THEN Ok(c)
    ELSE IF typical_ram_offset(address, 0) < c.ram_len
         THEN Ok([c EXCEPT !.ram = Put(@, typical_ram_offset(address, 0), data)])
         ELSE Panicked(c)

----------------------------------------------------------------------------
(* cartridge/mbc/mbc2.rs *)

\* u8 << shift and u8 >> shift: a shift of 8 or more overflows, which panics
\* in a debug build and wraps the shift amount to its low 3 bits otherwise.
Pow2(n) == IF n = 0 THEN 1 ELSE IF n = 1 THEN 2 ELSE IF n = 2 THEN 4
           ELSE IF n = 3 THEN 8 ELSE IF n = 4 THEN 16 ELSE IF n = 5 THEN 32
           ELSE IF n = 6 THEN 64 ELSE 128

ShlU8(v, shift) ==
    IF shift >= 8 /\ build = "debug" THEN PANIC
    ELSE (v * Pow2(shift % 8)) % 256

ShrU8(v, shift) ==
    IF shift >= 8 /\ build = "debug" THEN PANIC
    ELSE v \div Pow2(shift % 8)

\* MBC2::new; the RAM parameter is a [u8; 0x100], so its length is fixed.
MBC2_new(rom, ram_len) ==
    LET info == validate(rom, ram_len, "MBC2") IN
    IF ~info.ok THEN info
    ELSE [ok |-> TRUE,
          cart |-> [kind |-> "MBC2", rom |-> rom, ram_len |-> ram_len,
                    ram |-> Zeroed, ram_enabled |-> FALSE, rom_bank |-> 1]]

\* MBC2::get_sram_byte: <<offset of the byte, how much to shift it>>.
get_sram_byte(c, address) ==
    << And(address \div 2, c.ram_len - 1), And(address, 1) * 16 >>

\* MBC2::read
MBC2_read(c, address) ==
    IF address <= CARTRIDGE_ROM_END
    THEN RomIndex(c.rom, typical_rom_offset(address, c.rom_bank))
    ELSE IF c.ram_enabled
    THEN LET b == get_sram_byte(c, address)
             shifted == ShrU8(Get(c.ram, b[1]), b[2])
         IN  IF shifted = PANIC THEN PANIC ELSE And(shifted, \hF)
    ELSE \hFF

\* The bank-register arm of MBC2::write.
MBC2_rom_bank(c, data) ==
    Clamp(And(data, \hF), 1, c.rom.len \div TYPICAL_ROM_BANK_SIZE)

\* MBC2::write with the enable arm comparing the low nibble only.
MBC2_write_low_nibble(c, address, data) ==
    IF address <= CARTRIDGE_ROM_MAIN_BANK_END /\ And(address, \h100) = 0
    THEN Ok([c EXCEPT !.ram_enabled = (And(data, \hF) = \hA /\ c.ram_len # 0)])
    ELSE IF address <= CARTRIDGE_ROM_MAIN_BANK_END
    THEN Ok([c EXCEPT !.rom_bank = Clamp(And(data, \hF), 1, c.rom.len \div TYPICAL_ROM_BANK_SIZE)])
    ELSE Ok(c)

\* MBC2::write
MBC2_write(c, address, data) ==
    IF address <= CARTRIDGE_ROM_MAIN_BANK_END
    THEN IF And(address, \h100) = 0
         THEN Ok([c EXCEPT !.ram_enabled = (data = \hA /\ c.ram_len # 0)])
         ELSE Ok([c EXCEPT !.rom_bank = MBC2_rom_bank(c, data)])
    ELSE IF c.ram_enabled /\ Within(address, CARTRIDGE_RAM_START, CARTRIDGE_RAM_END)
    THEN LET b == get_sram_byte(c, address)
             byte == Get(c.ram, b[1])
             mask == ShlU8(\hF, b[2])
             bits == ShlU8(And(data, \hF), b[2])
         IN  IF mask = PANIC \/ bits = PANIC THEN Panicked(c)
             ELSE Ok([c EXCEPT !.ram =
                        Put(@, b[1], And(byte, 255 - mask) + bits
                                     - And(And(byte, 255 - mask), bits))])
    ELSE Ok(c)

----------------------------------------------------------------------------
(* cartridge/mbc/mbc3.rs *)

\* Option<RTCData>
None == [some |-> FALSE, seconds |-> 0, minutes |-> 0, hours |-> 0,
         days_low |-> 0, flags |-> 0]

RTCData(s, m, h, d, f) ==
    [some |-> TRUE, seconds |-> s, minutes |-> m, hours |-> h,
     days_low |-> d, flags |-> f]

\* RTCData::default()
RTCDefault == RTCData(0, 0, 0, 0, 0)

\* MBC3RAMMode
RAMBank(n) == [tag |-> "RAMBank", n |-> n]
RTCMode(tag) == [tag |-> tag, n |-> 0]

\* The field of RTCData an RTC mode selects.
RTCField(mode) ==
    CASE mode.tag = "RTCSeconds" -> "seconds"
      [] mode.tag = "RTCMinutes" -> "minutes"
      [] mode.tag = "RTCHours" -> "hours"
      [] mode.tag = "RTCDaysLow" -> "days_low"
      [] mode.tag = "RTCFlags" -> "flags"

\* The cartridge MBC3::new builds once validation has passed.
MBC3_initial(rom, ram_len, rtc, info) ==
    [kind |-> "MBC3", rom |-> rom, ram_len |-> ram_len, ram |-> Zeroed,
     ram_enabled |-> FALSE, rom_bank |-> 1, latched |-> TRUE,
     ram_mode |-> RAMBank(1),
     rtc |-> IF info.has_rtc THEN (IF rtc.some THEN rtc ELSE RTCDefault) ELSE None,
     latched_rtc |-> IF info.has_rtc THEN RTCDefault ELSE None]

\* The RAM-size check passing every length.
MBC3_ram_ok_any(ram_len) == TRUE

\* The RAM-size check MBC3::new makes after validation.
MBC3_ram_ok(ram_len) ==
    ~(ram_len # 0 /\ (ram_len \div TYPICAL_RAM_BANK_SIZE) # 4)

\* MBC3::new
MBC3_new(rom, ram_len, rtc) ==
    LET info == validate(rom, ram_len, "MBC3") IN
    IF ~info.ok THEN info
    ELSE IF ~MBC3_ram_ok(ram_len) THEN LoadError("IncorrectRAMSize")
    ELSE [ok |-> TRUE, cart |-> MBC3_initial(rom, ram_len, rtc, info)]

\* MBC3::set_rtc and MBC3::set_latched_rtc
MBC3_set_rtc(c, data) == [c EXCEPT !.rtc = data]
MBC3_set_latched_rtc(c, data) == [c EXCEPT !.latched_rtc = data]

\* MBC3::read
MBC3_read(c, address) ==
    IF address <= CARTRIDGE_ROM_END
    THEN RomIndex(c.rom, typical_rom_offset(address, c.rom_bank))
    ELSE IF c.ram_enabled
    THEN IF c.ram_mode.tag = "RAMBank"
         THEN IF c.ram_len = 0 THEN \hFF
              ELSE RamIndex(c.ram, c.ram_len, typical_ram_offset(address, c.ram_mode.n))
         ELSE IF c.latched_rtc.some THEN c.latched_rtc[RTCField(c.ram_mode)]
              ELSE PANIC
    ELSE \hFF

\* The RAM-enable arm of MBC3::write (address <= 0x1FFF).
MBC3_ram_enable(c, data) ==
    IF data = \hA /\ (c.ram_len # 0 \/ ~c.rtc.some) THEN TRUE
    ELSE IF data = 0 THEN FALSE
    ELSE c.ram_enabled

\* The bank-select arm of MBC3::write (0x2000..0x3FFF).
MBC3_rom_bank(c, data) ==
    Clamp(And(data, \h7F), 1, (c.rom.len \div TYPICAL_ROM_BANK_SIZE) % 256)

\* The selector arm of MBC3::write (0x4000..0x5FFF).
MBC3_ram_mode(c, data) ==
    IF ~c.rtc.some
    THEN IF data < 4 THEN RAMBank(data) ELSE c.ram_mode
    ELSE IF data <= 3 THEN RAMBank(data)
    ELSE IF data = \h08 THEN RTCMode("RTCSeconds")
    ELSE IF data = \h09 THEN RTCMode("RTCMinutes")
    ELSE IF data = \h0A THEN RTCMode("RTCHours")
    ELSE IF data = \h0B THEN RTCMode("RTCDaysLow")
    ELSE IF data = \h0C THEN RTCMode("RTCFlags")
    ELSE c.ram_mode

\* The latch arm copying on every write of 0x01.
MBC3_latch_level(c, data) ==
    LET c1 == IF data = 0 THEN [c EXCEPT !.latched = FALSE] ELSE c IN
    IF data = 1
    THEN [c1 EXCEPT !.latched = TRUE, !.latched_rtc = c1.rtc]
    ELSE c1

\* The latch arm of MBC3::write (0x6000..0x7FFF).
MBC3_latch(c, data) ==
    LET c1 == IF data = 0 THEN [c EXCEPT !.latched = FALSE] ELSE c IN
    IF data = 1 /\ ~c1.latched
    THEN [c1 EXCEPT !.latched = TRUE, !.latched_rtc = c1.rtc]
    ELSE c1

\* MBC3::write
MBC3_write(c, address, data) ==
    IF address <= \h1FFF THEN Ok([c EXCEPT !.ram_enabled = MBC3_ram_enable(c, data)])
    ELSE IF address <= \h3FFF THEN Ok([c EXCEPT !.rom_bank = MBC3_rom_bank(c, data)])
    ELSE IF address <= \h5FFF THEN Ok([c EXCEPT !.ram_mode = MBC3_ram_mode(c, data)])
    ELSE IF address <= \h7FFF THEN Ok(MBC3_latch(c, data))
    ELSE IF c.ram_enabled
    THEN IF c.ram_mode.tag = "RAMBank"
         THEN IF c.ram_len = 0 THEN Ok(c)
              ELSE IF typical_ram_offset(address, c.ram_mode.n) < c.ram_len
              THEN Ok([c EXCEPT !.ram =
                          Put(@, typical_ram_offset(address, c.ram_mode.n), data)])
              ELSE Panicked(c)
         ELSE IF c.rtc.some
              THEN Ok([c EXCEPT !.rtc[RTCField(c.ram_mode)] = data])
              ELSE Panicked(c)
    ELSE Ok(c)

----------------------------------------------------------------------------
(* cartridge/mbc/mbc5.rs *)

\* MBC5::new
MBC5_new(rom, ram_len) ==
    LET info == validate(rom, ram_len, "MBC5") IN
    IF ~info.ok THEN info
    ELSE [ok |-> TRUE,
          cart |-> [kind |-> "MBC5", rom |-> rom, ram_len |-> ram_len,
                    ram |-> Zeroed, ram_enabled |-> FALSE, rom_bank |-> 1,
                    rom_bank_count |-> rom.len \div TYPICAL_ROM_BANK_SIZE,
                    ram_bank_count |-> ram_len \div TYPICAL_RAM_BANK_SIZE,
                    ram_bank |-> 0,
                    rumble |-> [some |-> info.has_rumble, on |-> FALSE]]]

\* The low-byte arm of MBC5::write (0x2000..0x2FFF) without its mask.
MBC5_rom_bank_low_unmasked(c, data) ==
    And(c.rom_bank, \h100) + data

\* The low-byte arm of MBC5::write (0x2000..0x2FFF): rom_bank &= 0x100, then
\* |= data & (rom_bank_count - 1).
MBC5_rom_bank_low(c, data) ==
    And(c.rom_bank, \h100) + And(data, c.rom_bank_count - 1)

\* The high-bit arm of MBC5::write (0x3000..0x3FFF): rom_bank &= 0x0FF, then
\* |= (data << 8) & (rom_bank_count - 1).
MBC5_rom_bank_high(c, data) ==
    And(c.rom_bank, \hFF) + And(data * 256, c.rom_bank_count - 1)

\* The RAM-bank arm of MBC5::write with bit 3 left in the bank index.
MBC5_ram_bank_keeps_bit3(c, data) ==
    [c EXCEPT !.ram_bank = IF c.ram_len # 0 THEN And(data, c.ram_bank_count - 1) ELSE @,
              !.rumble.on = IF c.rumble.some THEN And(data, 8) # 0 ELSE @]

\* The RAM-bank arm of MBC5::write (0x4000..0x5FFF); with rumble present bit 3
\* drives the motor instead of the bank.
MBC5_ram_bank(c, data) ==
    LET d == IF c.rumble.some THEN data - And(data, 8) ELSE data IN
    [c EXCEPT !.ram_bank = IF c.ram_len # 0 THEN And(d, c.ram_bank_count - 1) ELSE @,
              !.rumble.on = IF c.rumble.some THEN And(data, 8) # 0 ELSE @]

\* The RAM-enable arm of MBC5::write (address <= 0x1FFF).
MBC5_ram_enable(c, data) ==
    IF And(data, \hF) = \hA /\ c.ram_len # 0 THEN TRUE
    ELSE IF And(data, \hF) = 0 THEN FALSE
    ELSE c.ram_enabled

\* The RAM arm of MBC5::write storing whether or not RAM is enabled.
MBC5_ram_store_ungated(c, address, data) ==
    IF typical_ram_offset(address, c.ram_bank) < c.ram_len
    THEN Ok([c EXCEPT !.ram = Put(@, typical_ram_offset(address, c.ram_bank), data)])
    ELSE Panicked(c)

\* The RAM arm of MBC5::write (address > 0x7FFF).
MBC5_ram_store(c, address, data) ==
    IF ~c.ram_enabled THEN Ok(c)
    ELSE IF typical_ram_offset(address, c.ram_bank) < c.ram_len
    THEN Ok([c EXCEPT !.ram = Put(@, typical_ram_offset(address, c.ram_bank), data)])
    ELSE Panicked(c)

\* MBC5::read
MBC5_read(c, address) ==
    IF address <= CARTRIDGE_ROM_END
    THEN RomIndex(c.rom, typical_rom_offset(address, c.rom_bank))
    ELSE IF c.ram_enabled
    THEN RamIndex(c.ram, c.ram_len, typical_ram_offset(address, c.ram_bank))
    ELSE \hFF

\* MBC5::write
MBC5_write(c, address, data) ==
    IF address <= \h1FFF THEN Ok([c EXCEPT !.ram_enabled = MBC5_ram_enable(c, data)])
    ELSE IF address <= \h2FFF THEN Ok([c EXCEPT !.rom_bank = MBC5_rom_bank_low(c, data)])
    ELSE IF address <= \h3FFF THEN Ok([c EXCEPT !.rom_bank = MBC5_rom_bank_high(c, data)])
    ELSE IF address <= \h5FFF THEN Ok(MBC5_ram_bank(c, data))
    ELSE IF address <= \h7FFF THEN Ok(c)
    ELSE MBC5_ram_store(c, address, data)

----------------------------------------------------------------------------
(* The operations. *)

Builds == {"debug", "release"}

NoCart == [kind |-> "None"]

NoArgs == [rom |-> RomImage(0, 0, 0, 0), ram_len |-> 0, rtc |-> None]

NoOut == [op |-> "none", address |-> 0, data |-> 0, value |-> 0,
          device |-> "none", mapper |-> "none", result |-> "none"]

NoHist == [armed |-> FALSE, disable_written |-> FALSE, step |-> 0]

\* Cartridge read and write, dispatched on the mapper in the slot.
CartRead(c, address) ==
    CASE c.kind = "NoROM" -> NoROM_read(c, address)
      [] c.kind = "MBC2" -> MBC2_read(c, address)
      [] c.kind = "MBC3" -> MBC3_read(c, address)
      [] c.kind = "MBC5" -> MBC5_read(c, address)

CartWrite(c, address, data) ==
    CASE c.kind = "NoROM" -> NoROM_write(c, address, data)
      [] c.kind = "MBC2" -> MBC2_write(c, address, data)
      [] c.kind = "MBC3" -> MBC3_write(c, address, data)
      [] c.kind = "MBC5" -> MBC5_write(c, address, data)

After(panic) == IF panic THEN "panicked" ELSE "running"

\* A bus write: resolve the address, then set_data_lines(address, true, data)
\* on the device it resolved to.
BusWrite(address, data) ==
    /\ status = "running"
    /\ LET dev == resolve_address_to_device(io, address) IN
       /\ IF dev = "cartridge"
          THEN LET r == CartWrite(cart, address, data) IN
               /\ cart' = r.cart
               /\ io' = io
               /\ status' = After(r.panic)
          ELSE LET r == DeviceWrite(io, dev, address, data) IN
               /\ io' = r.io
               /\ cart' = cart
               /\ status' = After(r.panic)
       /\ out' = [NoOut EXCEPT !.op = "write", !.address = address,
                               !.data = data, !.device = dev]
       \* observed: a non-zero byte has reached the disable-latch register
       /\ hist' = [hist EXCEPT !.disable_written =
                        @ \/ (dev = "disable_bootrom" /\ data # 0)]
    /\ UNCHANGED <<args, build, emu>>

\* A bus read: resolve the address, then set_data_lines(address, false, _)
\* and read_out() on the device it resolved to.
BusRead(address) ==
    /\ status = "running"
    /\ LET dev == resolve_address_to_device(io, address)
           v == IF dev = "cartridge" THEN CartRead(cart, address)
                ELSE DeviceRead(io, dev, address)
       IN  /\ status' = After(v = PANIC)
           /\ out' = [NoOut EXCEPT !.op = "read", !.address = address,
                                   !.value = v, !.device = dev]
    /\ UNCHANGED <<io, cart, args, hist, build, emu>>

\* The decoder's resolve step alone.
Resolve(address) ==
    /\ out' = [NoOut EXCEPT !.op = "resolve", !.address = address,
                            !.device = resolve_address_to_device(io, address)]
    /\ UNCHANGED <<io, cart, args, hist, build, status, emu>>

----------------------------------------------------------------------------
(* The decoder as a function of its inputs: every console model, either    *)
(* value of the OAM-DMA flag, and a zero and non-zero disable latch.       *)

LatchValues == {0, 1, 255}

\* The edges of every window and overlay, and the registers the decoder reads.
ProbeAddresses ==
    {\h0000, \h0100, \h0300, \h8000, \hC000, \hFEA0, \hFF46, \hFF80}

\* The cartridge in the slot of the decoder: ROM with RAM, 32 KiB and 8 KiB.
BusCart == NoROM_new(RomImage(\h8000, \h08, 1, 2), \h2000).cart

InitResolve ==
    /\ io \in {[IONew(m) EXCEPT !.registers.oam_dma.in_progress = p,
                                !.registers.disable_bootrom.byte = b] :
                  m \in Model, p \in BOOLEAN, b \in LatchValues}
    /\ cart = BusCart
    /\ args = NoArgs
    /\ out = NoOut
    /\ hist = NoHist
    /\ build = "release"
    /\ status = "running"
    /\ emu = EmulatorNew

NextResolve == \E a \in ProbeAddresses : Resolve(a)

SpecResolve == InitResolve /\ [][NextResolve]_vars

\* C1: for every 16-bit address, every console model, every value of the
\* OAM-DMA in-progress flag and every value of the boot-ROM-disable latch,
\* the resolve step selects a device (the decision is total over
\* 0x0000-0xFFFF), and no address matches more than one rule: no two arms
\* of the outer match share an address.
C1_ResolveTotal ==
    /\ \A a \in Address : resolve_address_to_device(io, a) \in Devices
    /\ \A i, j \in DOMAIN AddressWindows : i # j => ~WindowsOverlap(i, j)

\* The resolve step has run on the unusable range under every input.
C1_Witness ==
    /\ out.op = "resolve"
    /\ out.address = \hFEA0
    /\ out.device = "no_access"
    /\ ~io.registers.oam_dma.in_progress
    /\ io.registers.disable_bootrom.byte # 0

----------------------------------------------------------------------------
(* The bus: a freshly built emulator of either model, driven by reads and  *)
(* writes.                                                                 *)

\* One address in each of: the boot-ROM overlay, cartridge RAM, work RAM,
\* the OAM-DMA register, the disable latch, high RAM.
BusAddresses == {\h0050, \hA000, \hC000, \hFF46, \hFF50, \hFF80}

BusData == {\h00, \h5A}

InitBus ==
    /\ io \in {IONew(m) : m \in Model}
    /\ cart = BusCart
    /\ args = NoArgs
    /\ out = NoOut
    /\ hist = NoHist
    /\ build \in Builds
    /\ status = "running"
    /\ emu = EmulatorNew

NextBus ==
    \/ \E a \in BusAddresses, d \in BusData : BusWrite(a, d)
    \/ \E a \in BusAddresses : BusRead(a)

SpecBus == InitBus /\ [][NextBus]_vars

\* C3: with no OAM-DMA in progress, while the boot-ROM-disable latch is
\* zero a read of an address below 0x100 returns boot ROM content, and after
\* a non-zero value has been written to 0xFF50 the same read returns
\* cartridge ROM content.
C3_BootOverlay ==
    (/\ out.op = "read" /\ out.address < \h100
     /\ ~io.registers.oam_dma.in_progress)
    => /\ io.registers.disable_bootrom.byte = 0 /\ ~hist.disable_written
            => out.value = BootROMData(out.address)
       /\ hist.disable_written => out.value = RomData(cart.rom, out.address)

\* C4: the disable latch is one-way: a write of a non-zero value to 0xFF50
\* makes it read non-zero, and once non-zero no later write returns it to
\* zero.
C4_LatchOneWay ==
    /\ [](hist.disable_written => io.registers.disable_bootrom.byte # 0)
    /\ [][io.registers.disable_bootrom.byte # 0
            => io.registers.disable_bootrom.byte' # 0]_vars

----------------------------------------------------------------------------
(* The OAM-DMA lockout: a freshly built emulator of either model, with     *)
(* accesses to work RAM, cartridge RAM, high RAM and the OAM-DMA register. *)
(* Nothing reached here overflows or asserts, so one build stands for both.*)

DmaAddresses == {\hA000, \hC000, \hFF46, \hFF80}

DmaByte == 90

InitDma ==
    /\ io \in {IONew(m) : m \in Model}
    /\ cart = BusCart
    /\ args = NoArgs
    /\ out = NoOut
    /\ hist = NoHist
    /\ build = "release"
    /\ status = "running"
    /\ emu = EmulatorNew

NextDma ==
    \/ \E a \in DmaAddresses : BusWrite(a, DmaByte)
    \/ \E a \in DmaAddresses : BusRead(a)

SpecDma == InitDma /\ [][NextDma]_vars

\* The device the lockout rule names for an address.
C2_Expected(m, a) ==
    IF Within(a, \hFF80, \hFFFE) THEN "high_ram"
    ELSE IF m = "CGB" /\ (Within(a, \h0000, \h7FFF) \/ Within(a, \hA000, \hBFFF))
    THEN "cartridge"
    ELSE "no_access"

\* An access at an address the lockout sends to the null sink: a read
\* returns 0xFF, a write changes no device.
C2_NullSink ==
    (/\ io.registers.oam_dma.in_progress
     /\ out'.op \in {"read", "write"}
     /\ C2_Expected(io.model, out'.address) = "no_access")
    => /\ out'.op = "read" => out'.value = \hFF
       /\ io' = io /\ cart' = cart /\ status' = "running"

\* C2: while an OAM-DMA transfer is in progress, 0xFF80-0xFFFE resolves to
\* HighRAM, the cartridge ROM and RAM windows resolve to the cartridge only
\* on color hardware, and every other address resolves to the null sink: a
\* read returns 0xFF and a write changes no device state.
C2_DmaLockout ==
    /\ [](io.registers.oam_dma.in_progress =>
            \A a \in Address :
                resolve_address_to_device(io, a) = C2_Expected(io.model, a))
    /\ [][C2_NullSink]_vars

\* Work RAM holds a byte, the transfer is in progress, and a read of that
\* work RAM address has returned the fill value.
C2_Witness ==
    /\ io.registers.oam_dma.in_progress
    /\ Get(io.work_ram.memory, 0) = DmaByte
    /\ out.op = "read" /\ out.address = \hC000 /\ out.value = \hFF
    /\ io.model = "DMG"

----------------------------------------------------------------------------
(* Construction: validate and the four mapper constructors, applied to ROM *)
(* and RAM buffers of every shape.                                         *)

MapperType == {"ROMOnly", "MBC1", "MBC2", "MBC3", "MBC5", "MBC6", "MBC7"}

\* validate(rom, ram, expected_mapper_type)
Validate(expected) ==
    /\ status = "running"
    /\ LET r == validate(args.rom, args.ram_len, expected) IN
       out' = [NoOut EXCEPT !.op = "validate", !.mapper = expected,
                            !.result = IF r.ok THEN "Ok" ELSE r.err]
    /\ UNCHANGED <<io, cart, args, hist, build, status, emu>>

\* The result of a constructor becomes the cartridge, or its error is kept.
Construct(name, mapper, r) ==
    /\ status = "running"
    /\ cart = NoCart
    /\ cart' = IF r.ok THEN r.cart ELSE NoCart
    /\ out' = [NoOut EXCEPT !.op = name, !.mapper = mapper,
                            !.result = IF r.ok THEN "Ok" ELSE r.err]
    /\ UNCHANGED <<io, args, hist, build, status, emu>>

NewNoROM == Construct("new", "ROMOnly", NoROM_new(args.rom, args.ram_len))

\* MBC2::new takes ram: &mut [u8; 0x100].
NewMBC2 ==
    /\ args.ram_len = \h100
    /\ Construct("new", "MBC2", MBC2_new(args.rom, args.ram_len))

NewMBC3 == Construct("new", "MBC3", MBC3_new(args.rom, args.ram_len, args.rtc))

NewMBC5 == Construct("new", "MBC5", MBC5_new(args.rom, args.ram_len))

\* ROM-size header bytes 0..MaxRomCode and ROMs of up to MaxRomCode x 32 KiB.
MaxRomCode == 2

\* Cartridge-type bytes: each mapper with and without RAM, RTC and rumble,
\* and one byte outside the table.
HeaderTypes == {\h00, \h01, \h04, \h05, \h08, \h0F, \h10, \h11, \h13, \h19, \h1E}

HeaderRomCodes == (0..MaxRomCode) \cup {9}

HeaderRamCodes == {0, 2, 3, 5}

\* Too short to hold a header, then whole multiples of 32 KiB.
RomLengths == {\h14F} \cup {32 * 1024 * k : k \in 1..MaxRomCode}

RamLengths == {0, \h100, \h2000, \h8000, \h10000}

InitConstruct ==
    /\ io = IONew("DMG")
    /\ cart = NoCart
    /\ args \in {[rom |-> RomImage(len, h47, h48, h49), ram_len |-> rl,
                 rtc |-> None] :
                    len \in RomLengths, h47 \in HeaderTypes,
                    h48 \in HeaderRomCodes, h49 \in HeaderRamCodes,
                    rl \in RamLengths}
    /\ out = NoOut
    /\ hist = NoHist
    /\ build = "release"
    /\ status = "running"
    /\ emu = EmulatorNew

NextConstruct ==
    \/ \E m \in MapperType : Validate(m)
    \/ NewNoROM
    \/ NewMBC2
    \/ NewMBC3
    \/ NewMBC5

SpecConstruct == InitConstruct /\ [][NextConstruct]_vars

\* The header of the ROM handed in, when it has one that classifies.
ArgsHeader == read_cartridge_header(args.rom.h47, args.rom.h48, args.rom.h49)
ArgsClassified == args.rom.len >= \h150 /\ ArgsHeader.ok

\* C5: for a ROM whose header classifies, validate(rom, ram, M) succeeds if
\* and only if the ROM length equals the header's rom_size, the RAM length
\* equals the header's ram_size and the header's mapper kind equals M; when
\* exactly one of the three is violated it returns the matching error.
C5_ValidateIff ==
    (out.op = "validate" /\ ArgsClassified) =>
        LET rom_ok == args.rom.len = ArgsHeader.rom_size
            ram_ok == args.ram_len = ArgsHeader.ram_size
            mapper_ok == ArgsHeader.mapper_type = out.mapper
        IN  /\ out.result = "Ok" <=> (rom_ok /\ ram_ok /\ mapper_ok)
            /\ (~rom_ok /\ ram_ok /\ mapper_ok) => out.result = "IncorrectROMSize"
            /\ (rom_ok /\ ~ram_ok /\ mapper_ok) => out.result = "IncorrectRAMSize"
            /\ (rom_ok /\ ram_ok /\ ~mapper_ok) => out.result = "IncorrectMapper"

\* validate has rejected a ROM whose length alone disagrees with its header.
C5_Witness ==
    /\ out.op = "validate" /\ ArgsClassified
    /\ out.result = "IncorrectROMSize"
    /\ args.ram_len = ArgsHeader.ram_size
    /\ ArgsHeader.mapper_type = out.mapper

\* The buffers agree with the header and the header names the mapper built.
ArgsFit ==
    /\ ArgsClassified
    /\ ArgsHeader.mapper_type = out.mapper
    /\ args.rom.len = ArgsHeader.rom_size
    /\ args.ram_len = ArgsHeader.ram_size

\* C6 as stated: each mapper constructor accepts every ROM/RAM pair whose
\* header classifies, names the mapper being built and whose buffer lengths
\* equal the header's sizes, and returns an error only when one of those
\* conditions fails.
C6_Original ==
    out.op = "new" => (out.result = "Ok" <=> ArgsFit)

\* C6 amended: NoMapper, Mapper2 and Mapper5 accept exactly those pairs;
\* Mapper3 accepts them only when the RAM is empty or 32 KiB (four 8 KiB
\* banks), and otherwise returns IncorrectRAMSize although the RAM length
\* equals the header's ram_size.
C6_ConstructIff ==
    out.op = "new" =>
        /\ out.mapper # "MBC3" => (out.result = "Ok" <=> ArgsFit)
        /\ out.mapper = "MBC3" =>
            /\ out.result = "Ok" <=> (ArgsFit /\ args.ram_len \in {0, 32 * 1024})
            /\ (ArgsFit /\ args.ram_len \notin {0, 32 * 1024})
                    => out.result = "IncorrectRAMSize"
        /\ out.result = "Ok" <=> cart # NoCart

\* MBC3::new has rejected an 8 KiB RAM that its header declares.
C6_Witness ==
    /\ out.op = "new" /\ out.mapper = "MBC3"
    /\ ArgsFit /\ args.ram_len = \h2000
    /\ out.result = "IncorrectRAMSize"

----------------------------------------------------------------------------
(* The mappers driven directly through their read, write and debug setters *)
(* (Emulator::get_cartridge_mut hands out the cartridge).                  *)

\* write(address, data) on the cartridge in the slot.
WriteCart(address, data) ==
    /\ status = "running"
    /\ cart # NoCart
    /\ LET r == CartWrite(cart, address, data) IN
       /\ cart' = r.cart
       /\ status' = After(r.panic)
    /\ out' = [NoOut EXCEPT !.op = "write", !.address = address, !.data = data,
                            !.device = "cartridge"]

\* read(address) on the cartridge in the slot.
ReadCart(address) ==
    /\ status = "running"
    /\ cart # NoCart
    /\ LET v == CartRead(cart, address) IN
       /\ status' = After(v = PANIC)
       /\ out' = [NoOut EXCEPT !.op = "read", !.address = address, !.value = v,
                               !.device = "cartridge"]

\* MBC3::set_rtc(data)
SetRtcCart(data) ==
    /\ status = "running"
    /\ cart # NoCart /\ cart.kind = "MBC3"
    /\ cart' = MBC3_set_rtc(cart, data)
    /\ out' = [NoOut EXCEPT !.op = "set_rtc", !.device = "cartridge"]

\* observed: 0x00 has been written to 0x6000..0x7FFF and 0x01 has not been
\* written there since.
ArmedAfter(h, address, data) ==
    IF Within(address, \h6000, \h7FFF)
    THEN [h EXCEPT !.armed = IF data = 0 THEN TRUE
                             ELSE IF data = 1 THEN FALSE ELSE @]
    ELSE h

MapperWrite(address, data) ==
    /\ WriteCart(address, data)
    /\ hist' = ArmedAfter(hist, address, data)
    /\ UNCHANGED <<io, args, build, emu>>

MapperRead(address) ==
    /\ ReadCart(address)
    /\ UNCHANGED <<io, cart, args, hist, build, emu>>

SetRtc(data) ==
    /\ SetRtcCart(data)
    /\ UNCHANGED <<io, args, hist, build, status, emu>>

----------------------------------------------------------------------------
(* The end-to-end scenario on a Mapper3 cartridge with a 32 KiB ROM, no    *)
(* RAM and an RTC (cartridge type 0x0F), for every seconds value.          *)

Scenario ==
    << [op |-> "write", address |-> \h0000, data |-> \h0A],
       [op |-> "write", address |-> \h4000, data |-> \h08],
       [op |-> "set_rtc", address |-> 0, data |-> 0],
       [op |-> "write", address |-> \h6000, data |-> \h00],
       [op |-> "write", address |-> \h6000, data |-> \h01],
       [op |-> "read", address |-> \hA000, data |-> 0],
       [op |-> "write", address |-> \h2000, data |-> \h01],
       [op |-> "read", address |-> \h4000, data |-> 0] >>

ScenarioAt(op) == hist.step \in DOMAIN Scenario /\ Scenario[hist.step].op = op

ScenarioWrite ==
    /\ ScenarioAt("write")
    /\ WriteCart(Scenario[hist.step].address, Scenario[hist.step].data)
    /\ hist' = [ArmedAfter(hist, Scenario[hist.step].address, Scenario[hist.step].data)
                    EXCEPT !.step = @ + 1]
    /\ UNCHANGED <<io, args, build, emu>>

ScenarioSetRtc ==
    /\ ScenarioAt("set_rtc")
    /\ SetRtcCart(args.rtc)
    /\ hist' = [hist EXCEPT !.step = @ + 1]
    /\ UNCHANGED <<io, args, build, status, emu>>

ScenarioRead ==
    /\ ScenarioAt("read")
    /\ ReadCart(Scenario[hist.step].address)
    /\ hist' = [hist EXCEPT !.step = @ + 1]
    /\ UNCHANGED <<io, cart, args, build, emu>>

ScenarioRom == RomImage(\h8000, \h0F, 1, 0)

InitScenario ==
    /\ io = IONew("DMG")
    /\ args \in {[rom |-> ScenarioRom, ram_len |-> 0, rtc |-> RTCData(s, 0, 0, 0, 0)] :
                    s \in Byte}
    /\ cart = MBC3_new(ScenarioRom, 0, None).cart
    /\ out = NoOut
    /\ hist = [NoHist EXCEPT !.step = 1]
    /\ build \in Builds
    /\ status = "running"
    /\ emu = EmulatorNew

NextScenario == ScenarioWrite \/ ScenarioSetRtc \/ ScenarioRead

SpecScenario == InitScenario /\ [][NextScenario]_vars

\* C7: on a Mapper3 cartridge with 32 KiB ROM, no RAM and an RTC, for any
\* seconds value s, after enable (0x0A to 0x0000), select RTC seconds (0x08
\* to 0x4000), set_rtc with seconds s and latch (0x00 then 0x01 to 0x6000),
\* the read of 0xA000 returns s; and after bank-select 0x01 to 0x2000 the
\* read of 0x4000 returns the first byte of ROM bank 1.
C7_EndToEnd ==
    /\ (out.op = "read" /\ out.address = \hA000) => out.value = args.rtc.seconds
    /\ (out.op = "read" /\ out.address = \h4000)
            => out.value = RomData(cart.rom, TYPICAL_ROM_BANK_SIZE)

----------------------------------------------------------------------------
(* The Mapper3 latch under any sequence of writes and live-clock changes,  *)
(* on cartridges with an RTC (with and without RAM) and without one.       *)

LatchCartTypes == {<<\h0F, 0, 0>>, <<\h10, 3, \h8000>>, <<\h11, 0, 0>>}

\* Every kind of value written to the latch range, at both of its ends.
LatchAddresses == {\h6000, \h7FFF}

LatchData == {\h00, \h01, \h02, \hFF}

\* Enable, select RTC seconds, and a write through the selected register.
LatchOtherWrites == {<<\h0000, \h0A>>, <<\h4000, \h08>>, <<\hA000, \h07>>}

\* Live clock values handed to set_rtc.
RtcValues == {RTCData(s, 0, 0, 0, 0) : s \in {0, 42, 255}}

InitLatch ==
    /\ io = IONew("DMG")
    /\ args = NoArgs
    /\ cart \in {MBC3_new(RomImage(\h8000, t[1], 1, t[2]), t[3], None).cart :
                    t \in LatchCartTypes}
    /\ out = NoOut
    /\ hist = NoHist
    /\ build = "release"
    /\ status = "running"
    /\ emu = EmulatorNew

NextLatch ==
    \/ \E a \in LatchAddresses, d \in LatchData : MapperWrite(a, d)
    \/ \E w \in LatchOtherWrites : MapperWrite(w[1], w[2])
    \/ MapperRead(\hA000)
    \/ \E r \in RtcValues : SetRtc(r)

SpecLatch == InitLatch /\ [][NextLatch]_vars

\* C8: over any sequence of writes to 0x6000-0x7FFF the latched snapshot is
\* overwritten with the live RTC exactly on a write of 0x01 that follows a
\* write of 0x00 with no other 0x01 write in between; a 0x01 without an
\* intervening 0x00 leaves the snapshot unchanged, any value other than
\* 0x00 and 0x01 changes nothing at all, and no other operation touches the
\* snapshot.
C8_LatchStep ==
    IF out'.op = "write" /\ Within(out'.address, \h6000, \h7FFF)
    THEN /\ (out'.data = 1 /\ hist.armed) => cart'.latched_rtc = cart.rtc
         /\ ~(out'.data = 1 /\ hist.armed) => cart'.latched_rtc = cart.latched_rtc
         /\ out'.data \notin {0, 1} => cart' = cart
         /\ cart'.rtc = cart.rtc
    ELSE cart'.latched_rtc = cart.latched_rtc

C8_LatchEdge == [][C8_LatchStep]_vars

\* A 0x01 after a 0x00 has copied a live clock of 42 seconds into the snapshot.
C8_Witness ==
    /\ out.op = "write" /\ out.address = \h6000 /\ out.data = 1
    /\ ~hist.armed
    /\ cart.latched_rtc.some /\ cart.latched_rtc.seconds = 42
    /\ cart.latched_rtc = cart.rtc

----------------------------------------------------------------------------
(* Mapper2 under any sequence of reads and writes, in both builds.         *)

MBC2Addresses == {\h0000, \h0100, \h4000, \hA000, \hA001}

MBC2Data == {\h00, \h02, \h05, \h0A, \hF3}

InitMBC2 ==
    /\ io = IONew("DMG")
    /\ args = NoArgs
    /\ cart \in {MBC2_new(RomImage(32 * 1024 * k, \h06, k, 0), \h100).cart :
                    k \in 1..MaxRomCode}
    /\ out = NoOut
    /\ hist = NoHist
    /\ build \in Builds
    /\ status = "running"
    /\ emu = EmulatorNew

NextMBC2 ==
    \/ \E a \in MBC2Addresses, d \in MBC2Data : MapperWrite(a, d)
    \/ \E a \in MBC2Addresses : MapperRead(a)

SpecMBC2 == InitMBC2 /\ [][NextMBC2]_vars

\* The other address whose nibble shares the backing byte.
C9_Other(o) == IF o % 2 = 0 THEN o + 1 ELSE o - 1

\* C9: with RAM enabled, writing nibble n to cartridge-RAM address o and then
\* reading o returns n & 0xF, and the value read at o with address bit 0
\* flipped is the same after the write as before it.
C9_NibbleStep ==
    (/\ out'.op = "write"
     /\ Within(out'.address, CARTRIDGE_RAM_START, CARTRIDGE_RAM_END)
     /\ cart.ram_enabled)
    => /\ status' = "running"
       /\ MBC2_read(cart', out'.address) = out'.data % 16
       /\ MBC2_read(cart', C9_Other(out'.address)) = MBC2_read(cart, C9_Other(out'.address))

C9_NibblePacking == [][C9_NibbleStep]_vars

\* C10: after any sequence of writes the ROM bank register lies in
\* [1, rom_bank_count - 1], and every read of 0x4000-0x7FFF indexes inside
\* the ROM buffer.
C10_BankInRange ==
    /\ cart.rom_bank >= 1
    /\ cart.rom_bank <= (cart.rom.len \div TYPICAL_ROM_BANK_SIZE) - 1
    /\ typical_rom_offset(\h7FFF, cart.rom_bank) < cart.rom.len
    /\ (out.op = "read" /\ Within(out.address, \h4000, \h7FFF)) => out.value # PANIC

----------------------------------------------------------------------------
(* Every mapper under any sequence of reads and writes: cartridges of each *)
(* kind with and without RAM, RTC and rumble, and ROMs of 2 to             *)
(* 2 x MaxRomCode banks.                                                   *)

\* <<constructor, cartridge type, RAM-size byte, RAM length>>
MapperKinds ==
    { <<"NoROM", \h00, 0, 0>>, <<"NoROM", \h08, 2, \h2000>>,
      <<"MBC2", \h06, 0, \h100>>,
      <<"MBC3", \h0F, 0, 0>>, <<"MBC3", \h11, 0, 0>>, <<"MBC3", \h13, 3, \h8000>>,
      <<"MBC5", \h19, 0, 0>>, <<"MBC5", \h1B, 2, \h2000>>, <<"MBC5", \h1E, 3, \h8000>> }

\* The constructor of each mapper.
NewCart(kind, rom, ram_len) ==
    CASE kind = "NoROM" -> NoROM_new(rom, ram_len)
      [] kind = "MBC2" -> MBC2_new(rom, ram_len)
      [] kind = "MBC3" -> MBC3_new(rom, ram_len, None)
      [] kind = "MBC5" -> MBC5_new(rom, ram_len)

\* Enable and disable values, bank numbers inside and outside the ROM, a
\* selector, and a byte stored through the RAM window and the ROM range.
MapperWrites ==
    ({\h0000} \X {\h00, \h05, \h0A})
    \cup ({\h0100, \h2000, \h3FFF} \X {\h00, \h01, \h02, \h07, \hFF})
    \cup ({\h4000, \h7FFF, \hA000, \hBFFF} \X {\h5A})

MapperReads == {\h0000, \h4000, \h7FFF, \hA000, \hBFFF}

InitMappers ==
    /\ io = IONew("DMG")
    /\ args = NoArgs
    /\ cart \in {NewCart(m[1], RomImage(32 * 1024 * k, m[2], k, m[3]), m[4]).cart :
                    m \in MapperKinds, k \in 1..MaxRomCode}
    /\ out = NoOut
    /\ hist = NoHist
    /\ build = "release"
    /\ status = "running"
    /\ emu = EmulatorNew

NextMappers ==
    \/ \E w \in MapperWrites : MapperWrite(w[1], w[2])
    \/ \E a \in MapperReads : MapperRead(a)

SpecMappers == InitMappers /\ [][NextMappers]_vars

\* The number of 16 KiB banks the ROM of the cartridge holds.
RomBanks == cart.rom.len \div TYPICAL_ROM_BANK_SIZE

\* C11: after any sequence of writes to a Mapper3 cartridge the ROM bank
\* register is at least 1 and names a bank that exists in ROM, so a read of
\* 0x4000-0x7FFF never indexes past the end of the ROM buffer.
C11_MBC3BankExists ==
    cart.kind = "MBC3" =>
        /\ cart.rom_bank >= 1
        /\ cart.rom_bank < RomBanks
        /\ typical_rom_offset(\h7FFF, cart.rom_bank) < cart.rom.len
        /\ (out.op = "read" /\ Within(out.address, \h4000, \h7FFF)) => out.value # PANIC

\* What a Mapper5 step may do to the ROM bank register.
C12_BankStep ==
    (cart.kind = "MBC5" /\ out'.op = "write" /\ status' = "running") =>
        /\ Within(out'.address, \h2000, \h2FFF) =>
            /\ cart'.rom_bank % 256 = And(out'.data, RomBanks - 1)
            /\ cart'.rom_bank \div 256 = cart.rom_bank \div 256
        /\ Within(out'.address, \h3000, \h3FFF) =>
            /\ cart'.rom_bank % 256 = cart.rom_bank % 256
            /\ cart'.rom_bank \div 256 = And(out'.data * 256, RomBanks - 1) \div 256
        /\ ~Within(out'.address, \h2000, \h3FFF) => cart'.rom_bank = cart.rom_bank

\* C12: on Mapper5 a write to 0x2000-0x2FFF replaces only the low 8 bits of
\* the ROM bank register and a write to 0x3000-0x3FFF replaces only bit 8,
\* each masked to rom_bank_count - 1; after any sequence of writes the
\* register never exceeds rom_bank_count - 1 and ROM reads stay inside the
\* buffer.
C12_MBC5Bank ==
    /\ [](cart.kind = "MBC5" =>
            /\ cart.rom_bank <= RomBanks - 1
            /\ cart.rom_bank_count = RomBanks
            /\ (out.op = "read" /\ out.address <= CARTRIDGE_ROM_END) => out.value # PANIC)
    /\ [][C12_BankStep]_vars

\* A write of 0x07 to 0x2000 has left bank 3 selected on a four-bank ROM.
C12_Witness ==
    /\ cart.kind = "MBC5" /\ RomBanks = 4
    /\ out.op = "write" /\ out.address = \h2000 /\ out.data = \h07
    /\ cart.rom_bank = 3

\* What a write to 0x0000-0x1FFF does to the Mapper3 enable latch.
C13_EnableStep ==
    (cart.kind = "MBC3" /\ out'.op = "write" /\ out'.address <= \h1FFF) =>
        /\ (out'.data = \h0A /\ (cart.ram_len # 0 \/ cart.rtc.some)) => cart'.ram_enabled
        /\ out'.data = \h00 => ~cart'.ram_enabled
        /\ out'.data \notin {\h00, \h0A} => cart'.ram_enabled = cart.ram_enabled

\* C13: on Mapper3, writing 0x0A to 0x0000-0x1FFF sets the RAM-enable latch
\* whenever RAM is non-empty or RTC hardware is present, writing 0x00 clears
\* it, and any other value leaves it unchanged.
C13_MBC3Enable == [][C13_EnableStep]_vars

\* C14: on a NoMapper cartridge a write to any address in 0x0000-0x7FFF
\* changes neither the ROM bytes nor any RAM byte.
C14_RomWriteStep ==
    (cart.kind = "NoROM" /\ out'.op = "write" /\ out'.address <= CARTRIDGE_ROM_END) =>
        /\ status' = "running"
        /\ cart'.rom = cart.rom
        /\ cart'.ram = cart.ram

C14_NoROMWriteIgnored == [][C14_RomWriteStep]_vars

\* What an access to the RAM window does while the enable latch is clear.
C15_DisabledStep ==
    (/\ cart.kind \in {"MBC2", "MBC3", "MBC5"}
     /\ ~cart.ram_enabled
     /\ Within(out'.address, CARTRIDGE_RAM_START, CARTRIDGE_RAM_END)) =>
        /\ out'.op = "read" => out'.value = \hFF
        /\ out'.op = "write" =>
            /\ status' = "running"
            /\ cart'.ram = cart.ram
            /\ cart.kind = "MBC3" =>
                (cart'.rtc = cart.rtc /\ cart'.latched_rtc = cart.latched_rtc)

\* C15: on Mapper2, Mapper3 and Mapper5, while the RAM-enable latch is clear
\* every read of 0xA000-0xBFFF returns 0xFF and every write there is
\* dropped, leaving RAM bytes and both RTC snapshots unchanged.
C15_RamGate == [][C15_DisabledStep]_vars

\* A Mapper5 cartridge holds a byte stored while enabled, and a later write
\* at the same address of a disabled cartridge has been dropped.
C15_Witness ==
    /\ cart.kind = "MBC5" /\ cart.ram_len # 0 /\ ~cart.ram_enabled
    /\ out.op = "write" /\ out.address = \hBFFF /\ out.data = \h5A
    /\ Get(cart.ram, \h1FFF) = 0
    /\ Get(cart.ram, 0) = \h5A

----------------------------------------------------------------------------
(* Work RAM behind the bus: the fixed and the switchable window, and the   *)
(* bank register at 0xFF70.                                                *)

WramAddresses == {\hC000, \hD000, \hFF70}

\* Bank values 0, 2 and 7, and a byte to store.
WramData == {\h00, \h02, \h07, \h5A}

InitWram ==
    /\ io \in {IONew(m) : m \in Model}
    /\ cart = BusCart
    /\ args = NoArgs
    /\ out = NoOut
    /\ hist = NoHist
    /\ build = "release"
    /\ status = "running"
    /\ emu = EmulatorNew

NextWram ==
    \/ \E a \in WramAddresses, d \in WramData : BusWrite(a, d)
    \/ \E a \in WramAddresses : BusRead(a)

SpecWram == InitWram /\ [][NextWram]_vars

\* A write in the 0xD000 window leaves every byte of the 0xC000 window as
\* it was.
C16_WramStep ==
    (/\ io.model = "CGB"
     /\ out'.op = "write"
     /\ Within(out'.address, \hD000, \hDFFF)) =>
        \A a \in \hC000..\hCFFF :
            DeviceRead(io', "work_ram", a) = DeviceRead(io, "work_ram", a)

\* C16: on color hardware the window 0xC000-0xCFFF always addresses bank 0
\* and the window 0xD000-0xDFFF always addresses a bank in 1-7 chosen by the
\* register at 0xFF70: for every value written to that register, a write in
\* the 0xD000 window never changes a byte visible in the 0xC000 window.
C16_WramBanks ==
    /\ [](io.model = "CGB" =>
            /\ WorkRAM_offset(io.work_ram, \hC000) \div \h1000 = 0
            /\ WorkRAM_offset(io.work_ram, \hD000) \div \h1000 \in 1..7)
    /\ [][C16_WramStep]_vars

----------------------------------------------------------------------------
(* The color-only registers on both models, with and without an OAM-DMA    *)
(* transfer in progress.                                                   *)

\* 0xFF4D, 0xFF4F, 0xFF51-0xFF56, 0xFF68-0xFF6C and 0xFF70.
ColorOnlyRegisters ==
    {\hFF4D, \hFF4F, \hFF70} \cup (\hFF51..\hFF56) \cup (\hFF68..\hFF6C)

\* The first and last register of each group, and the OAM-DMA register.
ColorRegAddresses ==
    {\hFF4D, \hFF4F, \hFF51, \hFF56, \hFF68, \hFF6C, \hFF70, \hFF46}

ColorRegData == {\h00, \h5A}

InitColorRegs ==
    /\ io \in {IONew(m) : m \in Model}
    /\ cart = BusCart
    /\ args = NoArgs
    /\ out = NoOut
    /\ hist = NoHist
    /\ build = "release"
    /\ status = "running"
    /\ emu = EmulatorNew

NextColorRegs ==
    \/ \E a \in ColorRegAddresses, d \in ColorRegData : BusWrite(a, d)
    \/ \E a \in ColorRegAddresses : BusRead(a)

SpecColorRegs == InitColorRegs /\ [][NextColorRegs]_vars

\* On monochrome hardware both bank registers keep their initial values and
\* a read of a color-only register returns 0xFF.
C17_BanksKept ==
    io.model = "DMG" =>
        /\ io.video_ram.bank.byte = 0
        /\ io.work_ram.bank.byte = 1
        /\ (out.op = "read" /\ out.address \in ColorOnlyRegisters) => out.value = \hFF

\* On monochrome hardware a write to a color-only register changes nothing.
C17_WriteStep ==
    (io.model = "DMG" /\ out'.op = "write" /\ out'.address \in ColorOnlyRegisters)
        => (io' = io /\ cart' = cart /\ status' = "running")

\* C17 as stated: on monochrome hardware every color-only register address
\* resolves to the constant stub (reads return 0xFF, writes change nothing),
\* so after any sequence of bus writes the VideoRAM bank stays 0 and the
\* WorkRAM bank register stays 1.
C17_Original ==
    /\ [](C17_BanksKept
          /\ (io.model = "DMG" =>
                \A a \in ColorOnlyRegisters : resolve_address_to_device(io, a) = "unused"))
    /\ [][C17_WriteStep]_vars

\* C17 amended: on monochrome hardware the color-only register addresses
\* resolve to the constant stub while no OAM-DMA transfer is in progress and
\* to the null sink while one is; either way reads return 0xFF, writes change
\* nothing and the two bank registers keep 0 and 1.
C17_ColorOnlyStubbed ==
    /\ [](C17_BanksKept
          /\ (io.model = "DMG" =>
                \A a \in ColorOnlyRegisters :
                    resolve_address_to_device(io, a) =
                        IF io.registers.oam_dma.in_progress THEN "no_access" ELSE "unused"))
    /\ [][C17_WriteStep]_vars

\* The WorkRAM bank register address has been written on monochrome hardware
\* with no transfer in progress.
C17_Witness ==
    /\ io.model = "DMG" /\ ~io.registers.oam_dma.in_progress
    /\ out.op = "write" /\ out.address = \hFF70 /\ out.data = \h5A
    /\ out.device = "unused"

----------------------------------------------------------------------------
(* The extent of the boot-ROM overlay, for every input of the decoder.     *)

\* The addresses the overlay may cover: below 0x100 and, on color hardware,
\* 0x300-0x8FF.
C18_Overlay(m, a) == a < \h100 \/ (m = "CGB" /\ Within(a, \h300, \h8FF))

\* C18: with no OAM-DMA in progress, for every value of the disable latch,
\* every cartridge-ROM address outside the overlay (0x0100-0x02FF and
\* 0x0900-0x7FFF on color, all of 0x0100-0x7FFF on monochrome) resolves to
\* the cartridge.
C18_OverlayExtent ==
    ~io.registers.oam_dma.in_progress =>
        \A a \in CARTRIDGE_ROM_START..CARTRIDGE_ROM_END :
            ~C18_Overlay(io.model, a) => resolve_address_to_device(io, a) = "cartridge"

----------------------------------------------------------------------------
(* The cartridge header: the whole 0x50-byte block handed to               *)
(* read_cartridge_header, with the logo and the checksum.                  *)

\* The pattern header[0x4..=0x33] is compared with.
HEADER_LOGO ==
    << \hCE, \hED, \h66, \h66, \hCC, \h0D, \h00, \h0B, \h03, \h73, \h00, \h83, \h00, \h0C, \h00, \h0D,
       \h00, \h08, \h11, \h1F, \h88, \h89, \h00, \h0E, \hDC, \hCC, \h6E, \hE6, \hDD, \hDD, \hD9, \h99,
       \hBB, \hBB, \h67, \h63, \h6E, \h0E, \hEC, \hCC, \hDD, \hDC, \h99, \h9F, \hBB, \hB9, \h33, \h3E >>

\* u8::wrapping_sub
wrapping_sub(a, b) == (a - b + 256) % 256

\* let valid_logo = header[0x4..=0x33] == [...]
valid_logo(header) == \A i \in 1..48 : header[\h3 + i] = HEADER_LOGO[i]

\* The checksum loop without the subtraction of 1.
RECURSIVE checksum_loop_no_decrement(_, _, _)
checksum_loop_no_decrement(header, i, checksum) ==
    IF i > \h4C THEN checksum
    ELSE checksum_loop_no_decrement(header, i + 1, wrapping_sub(checksum, header[i]))

\* for i in &header[0x34..=0x4C] { checksum = checksum.wrapping_sub(*i).wrapping_sub(1) }
RECURSIVE checksum_loop(_, _, _)
checksum_loop(header, i, checksum) ==
    IF i > \h4C THEN checksum
    ELSE checksum_loop(header, i + 1,
                       wrapping_sub(wrapping_sub(checksum, header[i]), 1))

\* checksum_matches = valid_logo && checksum == header[0x4D];
\* bootable: valid_logo && checksum_matches
bootable(header) ==
    LET checksum == checksum_loop(header, \h34, 0)
        checksum_matches == valid_logo(header) /\ checksum = header[\h4D]
    IN  valid_logo(header) /\ checksum_matches

\* CartridgeHeaderInfo::read_cartridge_header on the whole header block.
read_cartridge_header_block(header) ==
    LET info == read_cartridge_header(header[\h47], header[\h48], header[\h49])
    IN  IF info.ok THEN info @@ [bootable |-> bootable(header)] ELSE info

\* A header block: the logo, a title byte, the three classifying bytes and
\* the stored checksum; zero elsewhere.
HeaderBlock(title, h47, h48, h49, h4D) ==
    [ i \in 0..\h4F |->
        IF Within(i, \h4, \h33) THEN HEADER_LOGO[i - \h3]
        ELSE IF i = \h34 THEN title
        ELSE IF i = \h47 THEN h47
        ELSE IF i = \h48 THEN h48
        ELSE IF i = \h49 THEN h49
        ELSE IF i = \h4D THEN h4D
        ELSE 0 ]

\* The stored checksum that makes HeaderBlock(title, h47, h48, h49, _) boot.
HeaderBlockChecksum(title, h47, h48, h49) ==
    checksum_loop(HeaderBlock(title, h47, h48, h49, 0), \h34, 0)

\* The block under parse, and where it was last changed (-1: nowhere).
HeaderArgs(header) == [header |-> header, changed_at |-> -1, original |-> 0]

\* read_cartridge_header(&header)
Parse ==
    /\ status = "running"
    /\ out' = [NoOut EXCEPT !.op = "parse",
                            !.result = read_cartridge_header_block(args.header)]
    /\ UNCHANGED <<io, cart, args, hist, build, status, emu>>

\* Size bytes: the smallest and largest valid ROM codes and one invalid one;
\* no RAM, the smallest and largest RAM codes and one invalid one.
ParseRomCodes == {0, 1, 8, 9}

ParseRamCodes == {0, 2, 5, 6}

InitParse ==
    /\ io = IONew("DMG")
    /\ cart = NoCart
    /\ args \in {HeaderArgs(HeaderBlock(0, h47, h48, h49,
                                        HeaderBlockChecksum(0, h47, h48, h49))) :
                    h47 \in Byte, h48 \in ParseRomCodes, h49 \in ParseRamCodes}
    /\ out = NoOut
    /\ hist = NoHist
    /\ build = "release"
    /\ status = "running"
    /\ emu = EmulatorNew

NextParse == Parse

SpecParse == InitParse /\ [][NextParse]_vars

\* The cartridge types by name: the mapper of each byte of the table, and
\* the bytes whose type carries RAM, a battery, a timer, rumble.
C19_Mapper(b) ==
    CASE b = \h00 -> "ROMOnly"
      [] Within(b, \h01, \h03) -> "MBC1"
      [] Within(b, \h05, \h06) -> "MBC2"
      [] Within(b, \h08, \h09) -> "ROMOnly"
      [] Within(b, \h0F, \h13) -> "MBC3"
      [] Within(b, \h19, \h1E) -> "MBC5"
      [] b = \h20 -> "MBC6"
      [] b = \h22 -> "MBC7"
      [] OTHER -> "none"

C19_Ram == {\h02, \h03, \h08, \h09, \h10, \h12, \h13, \h1A, \h1B, \h1D, \h1E, \h22}

C19_Battery == {\h03, \h06, \h09, \h0F, \h10, \h13, \h1B, \h1E, \h22}

C19_Timer == {\h0F, \h10}

C19_Rumble == {\h1C, \h1D, \h1E, \h22}

\* C19: parse maps every value of header byte 0x47 through the fixed table
\* (0x00 ROMOnly, 0x01-0x03 MBC1, 0x05-0x06 MBC2, 0x08-0x09 ROMOnly with RAM,
\* 0x0F-0x13 MBC3, 0x19-0x1E MBC5, 0x20 MBC6, 0x22 MBC7) with the RAM,
\* battery, RTC and rumble flags of the cartridge type when the size bytes
\* are valid, and returns UnknownMapper(byte) for every other value.
C19_HeaderTable ==
    out.op = "parse" =>
        LET b == args.header[\h47]
            r == out.result
            sizes_valid ==
                /\ args.header[\h48] <= 8
                /\ b \in C19_Ram /\ C19_Mapper(b) # "MBC7"
                       => args.header[\h49] \in 2..5
        IN  IF C19_Mapper(b) = "none"
            THEN r = HeaderError("UnknownMapper", b)
            ELSE sizes_valid =>
                   /\ r.ok
                   /\ r.mapper_type = C19_Mapper(b)
                   /\ (r.ram_size > 0) = (b \in C19_Ram \/ C19_Mapper(b) = "MBC2")
                   /\ r.has_save_data = (b \in C19_Battery)
                   /\ r.has_rtc = (b \in C19_Timer)
                   /\ r.has_rumble = (b \in C19_Rumble)

----------------------------------------------------------------------------
(* The bootable flag, on headers that boot or miss by the checksum, and on *)
(* the same headers with one byte changed.                                 *)

\* One byte of the header block is replaced by a different value before it
\* is parsed: header[at] becomes header[at] + delta (mod 256).
ChangeByte(at, delta) ==
    /\ status = "running"
    /\ args.changed_at = -1
    /\ args' = [header |-> [args.header EXCEPT ![at] = (@ + delta) % 256],
                changed_at |-> at,
                original |-> args.header[at]]
    /\ out' = NoOut
    /\ UNCHANGED <<io, cart, hist, build, status, emu>>

\* Every logo byte, the first and last bytes the checksum covers, the
\* stored checksum, and a byte that feeds neither.
ChangePositions == (\h4..\h33) \cup {\h34, \h4C, \h4D, \h4E}

ChangeDeltas == {\h01, \h80, \hFF}

BootTitles == {\h00, \h41, \hFF}

BootTypes == {\h00, \h13, \h1B}

InitBootable ==
    /\ io = IONew("DMG")
    /\ cart = NoCart
    /\ args \in {HeaderArgs(HeaderBlock(title, h47, 1, 3,
                     (HeaderBlockChecksum(title, h47, 1, 3) + off) % 256)) :
                    title \in BootTitles, h47 \in BootTypes, off \in {0, 1}}
    /\ out = NoOut
    /\ hist = NoHist
    /\ build = "release"
    /\ status = "running"
    /\ emu = EmulatorNew

NextBootable ==
    \/ \E at \in ChangePositions, delta \in ChangeDeltas : ChangeByte(at, delta)
    \/ Parse

SpecBootable == InitBootable /\ [][NextBootable]_vars

\* The sum of the bytes of h at positions lo..hi.
RECURSIVE C20_Sum(_, _, _)
C20_Sum(h, lo, hi) == IF lo > hi THEN 0 ELSE h[lo] + C20_Sum(h, lo + 1, hi)

\* The logo region equals the pattern, and 0 minus each of the 25 bytes
\* 0x34..0x4C minus 1 for each of them, modulo 256, is the byte at 0x4D.
C20_Boots(h) ==
    /\ [i \in 1..48 |-> h[\h3 + i]] = HEADER_LOGO
    /\ (0 - C20_Sum(h, \h34, \h4C) - 25) % 256 = h[\h4D]

\* The header block before its change.
C20_Before ==
    IF args.changed_at = -1 THEN args.header
    ELSE [args.header EXCEPT ![args.changed_at] = args.original]

\* C20: bootable is true exactly when the 48-byte logo region equals the
\* fixed pattern and the 8-bit checksum over header bytes 0x34..=0x4C
\* (from 0, wrapping-subtract each byte, then wrapping-subtract 1) equals
\* the stored checksum byte; from a bootable header, changing any single
\* logo byte or the checksum byte makes bootable false.
C20_Bootable ==
    out.op = "parse" /\ out.result.ok =>
        /\ out.result.bootable = C20_Boots(args.header)
        /\ ( /\ C20_Boots(C20_Before)
             /\ args.changed_at \in (\h4..\h33) \cup {\h4D}
           ) => ~out.result.bootable

\* A bootable header had a logo byte changed and was parsed as not bootable.
C20_Witness ==
    /\ out.op = "parse"
    /\ out.result.ok
    /\ ~out.result.bootable
    /\ args.changed_at \in \h4..\h33
    /\ bootable(C20_Before)

----------------------------------------------------------------------------
(* The SoC clock and the divider/timer block.                              *)

SOC_BASE_CLOCK_SPEED == 1024 * 1024 * 4

SOC_BASE_CLOCK_SPEED_DOUBLE_SPEED == SOC_BASE_CLOCK_SPEED * 2

\* Emulator::soc_clock_speed
soc_clock_speed(s) ==
    IF s.double_speed_mode THEN SOC_BASE_CLOCK_SPEED_DOUBLE_SPEED
    ELSE SOC_BASE_CLOCK_SPEED

\* tick_soc without the comparison with the stored level.
tick_soc_every_call(e, high) ==
    [emu |-> [e EXCEPT !.soc_clock_high = high], panic |-> TRUE]

\* Emulator::tick_soc: a call with the stored level returns at once; any
\* other stores the level and reaches todo!("tick_soc"), which panics.
tick_soc(e, high) ==
    IF e.soc_clock_high = high THEN [emu |-> e, panic |-> FALSE]
    ELSE [emu |-> [e EXCEPT !.soc_clock_high = high], panic |-> TRUE]

\* TimerDIV::tick_div: the byte incremented is the one get_timer_counter()
\* returns, value[1] (value[2] here, sequences being 1-based).
tick_div(t, soc_clock_count) ==
    IF soc_clock_count % (SOC_BASE_CLOCK_SPEED \div 16384) = 0
    THEN [t EXCEPT !.value[2] = (@ + 1) % 256]
    ELSE t

\* The rate table with the entries of 1 and 3 exchanged.
timer_rate_exchanged(control) ==
    CASE And(control, 3) = 0 -> 4096
      [] And(control, 3) = 1 -> 16384
      [] And(control, 3) = 2 -> 65536
      [] And(control, 3) = 3 -> 262144

\* TimerDIV::tick_timer, the match on control & 0b11.
timer_rate(control) ==
    CASE And(control, 3) = 0 -> 4096
      [] And(control, 3) = 1 -> 262144
      [] And(control, 3) = 2 -> 65536
      [] And(control, 3) = 3 -> 16384

\* TimerDIV::tick_timer: the block after the call and the bool returned.
tick_timer(t, soc_clock_count) ==
    LET control == t.value[4] IN
    IF And(control, 4) # 0
       /\ soc_clock_count % (SOC_BASE_CLOCK_SPEED \div timer_rate(control)) = 0
    THEN LET modulo == t.value[3]
             overflowed == t.value[2] = 255
         IN  [timer |-> [t EXCEPT !.value[2] = IF overflowed THEN modulo ELSE @ + 1],
              overflowed |-> overflowed]
    ELSE [timer |-> t, overflowed |-> FALSE]

\* Ticks applied in one run.
MaxTicks == 2

\* tick_soc(high)
TickSoc(high) ==
    /\ status = "running"
    /\ LET r == tick_soc(emu, high) IN
       /\ emu' = r.emu
       /\ status' = After(r.panic)
    /\ out' = [NoOut EXCEPT !.op = "tick_soc", !.data = IF high THEN 1 ELSE 0]
    /\ UNCHANGED <<io, cart, args, hist, build>>

\* registers.timer_div.tick_div(soc_clock_count)
TickDiv(soc_clock_count) ==
    /\ status = "running"
    /\ hist.step < MaxTicks
    /\ io' = [io EXCEPT !.registers.timer_div = tick_div(@, soc_clock_count)]
    /\ out' = [NoOut EXCEPT !.op = "tick_div", !.data = soc_clock_count]
    /\ hist' = [hist EXCEPT !.step = @ + 1]
    /\ UNCHANGED <<cart, args, build, status, emu>>

\* registers.timer_div.tick_timer(soc_clock_count)
TickTimer(soc_clock_count) ==
    /\ status = "running"
    /\ hist.step < MaxTicks
    /\ LET r == tick_timer(io.registers.timer_div, soc_clock_count) IN
       /\ io' = [io EXCEPT !.registers.timer_div = r.timer]
       /\ out' = [NoOut EXCEPT !.op = "tick_timer", !.data = soc_clock_count,
                               !.result = r.overflowed]
    /\ hist' = [hist EXCEPT !.step = @ + 1]
    /\ UNCHANGED <<cart, args, build, status, emu>>

\* Cycle counts: multiples of each period (16, 64, 256, 1024 cycles), counts
\* between them, and the largest count below the base clock rate.
TickCounts == {0, 1, 16, 48, 64, 256, 768, 1024, SOC_BASE_CLOCK_SPEED - 1}

\* The four timer bytes and the interrupt-request byte, each written once.
TimerWrites == {<<\hFF04, \h5A>>, <<\hFF05, \h5A>>, <<\hFF06, \h5A>>,
                <<\hFF07, \h05>>, <<\hFF0F, \h1F>>}

TimerReads == {\hFF04, \hFF05, \hFF0F}

\* Divider, counter, modulo and control bytes, and request bytes, to start from.
TimerBlocks ==
    {<<div, tima, tma, tac>> : div \in {0, \hFF}, tima \in {0, \hFE, \hFF},
                               tma \in {0, \h80}, tac \in {0, 3, 4, 5, 6, 7}}

TimerRequests == {\h00, \h1B}

InitTimer ==
    /\ io \in {[IONew(m) EXCEPT !.registers.timer_div.value = v,
                                !.registers.interrupts.interrupt_requested = r] :
                  m \in Model, v \in TimerBlocks, r \in TimerRequests}
    /\ cart = BusCart
    /\ args = NoArgs
    /\ out = NoOut
    /\ hist = NoHist
    /\ build = "release"
    /\ status = "running"
    /\ emu = EmulatorNew

NextTimer ==
    \/ \E high \in BOOLEAN : TickSoc(high)
    \/ \E c \in TickCounts : TickDiv(c)
    \/ \E c \in TickCounts : TickTimer(c)
    \/ \E w \in TimerWrites : BusWrite(w[1], w[2])
    \/ \E a \in TimerReads : BusRead(a)

SpecTimer == InitTimer /\ [][NextTimer]_vars

\* C21: each whole-cycle tick of the SoC (a tick_soc call whose signal
\* differs from the previous one) advances the cycle counter by one, wrapping
\* modulo the base clock rate (doubled in double-speed mode), and completes
\* without failing.
C21_TickAdvances ==
    [][ (out'.op = "tick_soc" /\ status = "running"
         /\ (out'.data = 1) # emu.soc_clock_high)
        => /\ status' = "running"
           /\ emu'.soc_clock = (emu.soc_clock + 1) % soc_clock_speed(io) ]_vars

\* C22: tick_soc with the same clock level as the previous call is a no-op:
\* the stored level, the cycle counter and every bus device are unchanged.
C22_SameLevelNoOp ==
    [][ (out'.op = "tick_soc" /\ status = "running"
         /\ (out'.data = 1) = emu.soc_clock_high)
        => /\ emu' = emu
           /\ io' = io
           /\ cart' = cart
           /\ status' = "running" ]_vars

\* tick_soc was called with the stored level on a timer block that is not
\* the default one, and returned.
C22_Witness ==
    /\ out.op = "tick_soc"
    /\ status = "running"
    /\ (out.data = 1) = emu.soc_clock_high
    /\ io.registers.timer_div.value[4] = 5

\* The divider byte as read at 0xFF04, the counter at 0xFF05, the request
\* byte at 0xFF0F.
C27_Div(s) == DeviceRead(s, "timer_div", \hFF04)

C28_Counter(s) == DeviceRead(s, "timer_div", \hFF05)

C29_Requests(s) == DeviceRead(s, "interrupts", \hFF0F)

\* C27: the divider byte (readable at 0xFF04) increments by one, wrapping at
\* 8 bits, on every divider tick whose cycle counter is congruent to 0
\* modulo base_clock/16384, and is unchanged by a divider tick at any other
\* counter value.
C27_DividerTick ==
    [][ (out'.op = "tick_div" /\ status = "running")
        => C27_Div(io') =
              IF out'.data % (SOC_BASE_CLOCK_SPEED \div 16384) = 0
              THEN (C27_Div(io) + 1) % 256
              ELSE C27_Div(io) ]_vars

\* The rate in Hz selected by the low two control bits.
C28_Rate == <<4096, 262144, 65536, 16384>>

\* A timer tick at this count is one the counter counts: bit 2 of the
\* control byte is set and the count is a multiple of base_clock/rate.
C28_Counts(s, count) ==
    LET control == DeviceRead(s, "timer_div", \hFF07) IN
    /\ (control \div 4) % 2 = 1
    /\ count % (SOC_BASE_CLOCK_SPEED \div C28_Rate[(control % 4) + 1]) = 0

\* C28: the timer counter increments on a timer tick exactly when bit 2 of
\* the control byte is set and the cycle counter is congruent to 0 modulo
\* base_clock/rate, rate being 4096, 262144, 65536, 16384 Hz for the low two
\* control bits 0, 1, 2, 3 (from 0xFF the increment reloads the modulo);
\* with bit 2 clear a timer tick never changes the counter.
C28_TimerTick ==
    [][ (out'.op = "tick_timer" /\ status = "running")
        => C28_Counter(io') =
              IF C28_Counts(io, out'.data)
              THEN IF C28_Counter(io) = 255
                   THEN DeviceRead(io, "timer_div", \hFF06)
                   ELSE C28_Counter(io) + 1
              ELSE C28_Counter(io) ]_vars

\* A first timer tick at count 256 with control byte 7 (16384 Hz) has
\* incremented the counter from 0 to 1.
C28_Witness ==
    /\ out.op = "tick_timer"
    /\ out.data = 256
    /\ hist.step = 1
    /\ io.registers.timer_div.value[4] = 7
    /\ io.registers.timer_div.value[2] = 1

\* C29: when a timer increment overflows the counter (from 0xFF), the
\* counter is reloaded from the modulo register and bit 2 of the
\* interrupt-request byte (0xFF0F) is raised, the other request bits being
\* preserved; no flag is raised on a tick without overflow.
C29_TimerOverflow ==
    [][ (out'.op = "tick_timer" /\ status = "running")
        => IF C28_Counts(io, out'.data) /\ C28_Counter(io) = 255
           THEN /\ C28_Counter(io') = DeviceRead(io, "timer_div", \hFF06)
                /\ C29_Requests(io') =
                      C29_Requests(io) + (IF (C29_Requests(io) \div 4) % 2 = 1 THEN 0 ELSE 4)
           ELSE C29_Requests(io') = C29_Requests(io) ]_vars

\* C30: a bus write of any value to the divider address (0xFF04) resets the
\* divider to 0 and changes no other timer byte; a bus write to the counter
\* address (0xFF05) is a no-op; writes to 0xFF06 and 0xFF07 store the value
\* in the modulo and control bytes respectively and nothing else.
C30_TimerWrites ==
    [][ (out'.op = "write" /\ status = "running"
         /\ Within(out'.address, \hFF04, \hFF07))
        => LET v == io.registers.timer_div.value
               d == out'.data
               w == CASE out'.address = \hFF04 -> <<0, v[2], v[3], v[4]>>
                      [] out'.address = \hFF05 -> v
                      [] out'.address = \hFF06 -> <<v[1], v[2], d, v[4]>>
                      [] out'.address = \hFF07 -> <<v[1], v[2], v[3], d>>
           IN  /\ io' = [io EXCEPT !.registers.timer_div.value = w]
               /\ cart' = cart
               /\ emu' = emu
               /\ status' = "running" ]_vars

\* 0x5A was written to 0xFF05 and the counter still reads 0xFF.
C30_Witness ==
    /\ out.op = "write"
    /\ out.address = \hFF05
    /\ out.data = \h5A
    /\ C28_Counter(io) = \hFF
    /\ status = "running"

----------------------------------------------------------------------------
(* Mapper3 with an RTC sub-register selected: reads, writes, the enable    *)
(* latch and the two clock setters, on cartridges with and without an RTC. *)

\* MBC3::set_latched_rtc(data)
SetLatchedRtc(data) ==
    /\ status = "running"
    /\ cart # NoCart /\ cart.kind = "MBC3"
    /\ cart' = MBC3_set_latched_rtc(cart, data)
    /\ out' = [NoOut EXCEPT !.op = "set_latched_rtc", !.device = "cartridge"]
    /\ UNCHANGED <<io, args, hist, build, status, emu>>

\* RTC with RAM, RTC without RAM, RAM without RTC: <<type, RAM code, RAM length>>.
RtcCartTypes == {<<\h10, 3, \h8000>>, <<\h0F, 0, 0>>, <<\h13, 3, \h8000>>}

\* Enable, disable, each RTC selector code, and a byte through the window.
RtcWrites == {<<\h0000, \h0A>>, <<\h0000, \h00>>, <<\h4000, \h08>>, <<\h4000, \h09>>,
              <<\h4000, \h0A>>, <<\h4000, \h0B>>, <<\h4000, \h0C>>,
              <<\hA000, \h2A>>, <<\hBFFF, \h2A>>}

\* The clock handed to set_rtc and the snapshot handed to set_latched_rtc.
RtcLive == RTCData(50, 51, 52, 53, 54)

RtcSnapshot == RTCData(1, 2, 3, 4, 5)

InitRtc ==
    /\ io = IONew("DMG")
    /\ args = NoArgs
    /\ cart \in {MBC3_new(RomImage(\h8000, t[1], 1, t[2]), t[3], None).cart :
                    t \in RtcCartTypes}
    /\ out = NoOut
    /\ hist = NoHist
    /\ build = "release"
    /\ status = "running"
    /\ emu = EmulatorNew

NextRtc ==
    \/ \E w \in RtcWrites : MapperWrite(w[1], w[2])
    \/ MapperRead(\hA000)
    \/ SetRtc(RtcLive)
    \/ SetLatchedRtc(RtcSnapshot)

SpecRtc == InitRtc /\ [][NextRtc]_vars

\* The RTC field each sub-register mode stands for.
C23_Field(tag) ==
    CASE tag = "RTCSeconds" -> "seconds"
      [] tag = "RTCMinutes" -> "minutes"
      [] tag = "RTCHours" -> "hours"
      [] tag = "RTCDaysLow" -> "days_low"
      [] tag = "RTCFlags" -> "flags"

C23_RtcStep ==
    ( /\ status = "running"
      /\ cart.ram_enabled
      /\ cart.ram_mode.tag # "RAMBank"
      /\ out'.op \in {"read", "write"}
      /\ Within(out'.address, CARTRIDGE_RAM_START, CARTRIDGE_RAM_END) )
    => /\ status' = "running"
       /\ out'.op = "read" =>
             /\ cart.latched_rtc.some
             /\ out'.value = cart.latched_rtc[C23_Field(cart.ram_mode.tag)]
       /\ out'.op = "write" =>
             /\ cart.rtc.some
             /\ cart' = [cart EXCEPT !.rtc[C23_Field(cart.ram_mode.tag)] = out'.data]

\* C23: on Mapper3 with the RAM-enable latch set and an RTC sub-register
\* selected, a read of the cartridge-RAM window returns the corresponding
\* field of the latched snapshot and a write changes only the corresponding
\* field of the live RTC: the latched snapshot and RAM are unchanged, so a
\* value written is not visible to reads until the next latch strobe.
C23_RtcAccess == [][C23_RtcStep]_vars

----------------------------------------------------------------------------
(* The Mapper3 selector register under every kind of value written to it.  *)

\* With and without RTC, with and without RAM.
SelectorCartTypes ==
    {<<\h0F, 0, 0>>, <<\h10, 3, \h8000>>, <<\h11, 0, 0>>, <<\h13, 3, \h8000>>}

SelectorAddresses == {\h4000, \h5FFF}

\* The bank numbers, the RTC codes, and values around and far from them.
SelectorData == {\h00, \h01, \h02, \h03, \h04, \h07, \h08, \h09, \h0A, \h0B,
                 \h0C, \h0D, \h88, \hFF}

InitSelector ==
    /\ io = IONew("DMG")
    /\ args = NoArgs
    /\ cart \in {MBC3_new(RomImage(\h8000, t[1], 1, t[2]), t[3], None).cart :
                    t \in SelectorCartTypes}
    /\ out = NoOut
    /\ hist = NoHist
    /\ build = "release"
    /\ status = "running"
    /\ emu = EmulatorNew

NextSelector ==
    \/ \E a \in SelectorAddresses, d \in SelectorData : MapperWrite(a, d)
    \/ MapperWrite(\h0000, \h0A)
    \/ SetRtc(RtcLive)

SpecSelector == InitSelector /\ [][NextSelector]_vars

\* The cartridge types with a timer.
C24_HasRtc(c) == c.rom.h47 \in {\h0F, \h10}

\* The selector after value v is written to it.
C24_Selected(c, v) ==
    IF v \in 0..3 THEN [tag |-> "RAMBank", n |-> v]
    ELSE IF C24_HasRtc(c) /\ v \in 8..12
    THEN [tag |-> <<"RTCSeconds", "RTCMinutes", "RTCHours", "RTCDaysLow",
                    "RTCFlags">>[v - 7],
          n |-> 0]
    ELSE c.ram_mode

\* C24: on Mapper3 a write to 0x4000-0x5FFF sets the selector to RAM bank v
\* for v in 0-3 and, only when RTC hardware is present, to the seconds,
\* minutes, hours, low-days, flags sub-register for v = 0x08, 0x09, 0x0A,
\* 0x0B, 0x0C; every other value (and 0x08-0x0C on a cartridge without RTC)
\* leaves the selector unchanged.
C24_Selector ==
    [][ (status = "running" /\ out'.op = "write"
         /\ Within(out'.address, \h4000, \h5FFF))
        => cart' = [cart EXCEPT !.ram_mode = C24_Selected(cart, out'.data)] ]_vars

----------------------------------------------------------------------------
(* The Mapper5 RAM-bank register: cartridges with and without rumble and   *)
(* with every RAM size the header can declare.                             *)

\* <<cartridge type, RAM-size byte, RAM length>>
RumbleCartTypes ==
    { <<\h19, 0, 0>>, <<\h1A, 2, \h2000>>, <<\h1A, 4, \h20000>>,
      <<\h1C, 0, 0>>, <<\h1D, 2, \h2000>>, <<\h1D, 3, \h8000>>,
      <<\h1E, 5, \h10000>>, <<\h1E, 4, \h20000>> }

RumbleAddresses == {\h4000, \h5FFF}

RumbleData == {\h00, \h01, \h03, \h07, \h08, \h09, \h0F, \h10, \hF7, \hFF}

InitRumble ==
    /\ io = IONew("DMG")
    /\ args = NoArgs
    /\ cart \in {MBC5_new(RomImage(\h8000, t[1], 1, t[2]), t[3]).cart :
                    t \in RumbleCartTypes}
    /\ out = NoOut
    /\ hist = NoHist
    /\ build = "release"
    /\ status = "running"
    /\ emu = EmulatorNew

NextRumble ==
    \/ \E a \in RumbleAddresses, d \in RumbleData : MapperWrite(a, d)
    \/ MapperWrite(\h0000, \h0A)
    \/ \E a \in {\hA000, \hBFFF} : MapperRead(a)

SpecRumble == InitRumble /\ [][NextRumble]_vars

\* v with bit 3 cleared.
C25_WithoutBit3(v) == IF (v \div 8) % 2 = 1 THEN v - 8 ELSE v

C25_BankStep ==
    ( /\ status = "running"
      /\ out'.op = "write"
      /\ Within(out'.address, \h4000, \h5FFF) )
    => LET v == out'.data
           banks == cart.ram_len \div TYPICAL_RAM_BANK_SIZE
       IN  /\ cart.rumble.some =>
                 /\ cart'.rumble.on = ((v \div 8) % 2 = 1)
                 /\ cart.ram_len # 0 => cart'.ram_bank = C25_WithoutBit3(v) % banks
           /\ (~cart.rumble.some /\ cart.ram_len # 0) => cart'.ram_bank = v % banks

\* C25: on a Mapper5 cartridge with rumble hardware, a write of value v to
\* 0x4000-0x5FFF sets the rumble-motor boolean to bit 3 of v and bit 3 does
\* not contribute to the RAM bank index; on every Mapper5 cartridge with RAM
\* the bank index is masked to ram_bank_count-1 and so always addresses a
\* bank inside the RAM buffer.
C25_RumbleBank ==
    /\ [](cart.ram_len # 0 =>
            /\ (cart.ram_bank + 1) * TYPICAL_RAM_BANK_SIZE <= cart.ram_len
            /\ (out.op = "read" /\ status = "running") => out.value # PANIC)
    /\ [][C25_BankStep]_vars

\* 0x0F written on a rumble cartridge with 16 RAM banks: motor on, bank 7.
C25_Witness ==
    /\ out.op = "write" /\ out.address = \h4000 /\ out.data = \h0F
    /\ cart.rumble.some /\ cart.rumble.on
    /\ cart.ram_len = \h20000
    /\ cart.ram_bank = 7

----------------------------------------------------------------------------
(* The Mapper2 control range: both values of address bit 8 at both ends of *)
(* 0x0000-0x3FFF, and values equal to, near and far from 0x0A.             *)

MBC2ControlAddresses == {\h0000, \h00FF, \h0100, \h01FF, \h0200, \h2100, \h3EFF, \h3FFF}

MBC2ControlData == {\h00, \h01, \h02, \h0A, \h0B, \h1A, \hFA, \hFF}

NextMBC2Control ==
    \/ \E a \in MBC2ControlAddresses, d \in MBC2ControlData : MapperWrite(a, d)
    \/ MapperRead(\hA000)

SpecMBC2Control == InitMBC2 /\ [][NextMBC2Control]_vars

\* C26: on Mapper2 a write to 0x0000-0x3FFF with address bit 8 clear arms
\* the RAM-enable latch if and only if the value is exactly 0x0A (any other
\* value disarms it) and leaves the ROM bank register unchanged; a write
\* with address bit 8 set changes only the ROM bank register and never the
\* latch.
C26_ControlWrite ==
    [][ (status = "running" /\ out'.op = "write" /\ out'.address <= \h3FFF)
        => IF (out'.address \div 256) % 2 = 0
           THEN cart' = [cart EXCEPT !.ram_enabled = (out'.data = \h0A)]
           ELSE cart' = [cart EXCEPT !.rom_bank = cart'.rom_bank] ]_vars

\* 0x0A written at 0x3EFF (bit 8 clear) has armed the latch with bank 2
\* selected.
C26_Witness ==
    /\ out.op = "write" /\ out.address = \h3EFF /\ out.data = \h0A
    /\ cart.ram_enabled
    /\ cart.rom_bank = 2

----------------------------------------------------------------------------
(* The size bytes of the header: every ROM-size and RAM-size code around   *)
(* the valid ranges, for every cartridge type of the table and some bytes  *)
(* outside it.                                                             *)

SizeTypes == DOMAIN CartridgeTypeTable \cup {\h04, \h21, \hFF}

SizeRomCodes == (0..10) \cup {\hFF}

SizeRamCodes == (0..7) \cup {\hFF}

InitSizes ==
    /\ io = IONew("DMG")
    /\ cart = NoCart
    /\ args \in {HeaderArgs(HeaderBlock(0, h47, h48, h49,
                                        HeaderBlockChecksum(0, h47, h48, h49))) :
                    h47 \in SizeTypes, h48 \in SizeRomCodes, h49 \in SizeRamCodes}
    /\ out = NoOut
    /\ hist = NoHist
    /\ build = "release"
    /\ status = "running"
    /\ emu = EmulatorNew

NextSizes == Parse

SpecSizes == InitSizes /\ [][NextSizes]_vars

\* The mapper has its own RAM layout.
C32_Fixed(b) == C19_Mapper(b) \in {"MBC2", "MBC7"}

\* Byte 0x49 is one the type of byte 0x47 accepts.
C31_RamValid(b, h49) == (b \in C19_Ram /\ ~C32_Fixed(b)) => h49 \in 2..5

\* C31: header parse accepts ROM-size byte (0x48) values 0-8 only, giving
\* rom_size = 32 KiB x byte, and returns UnknownROMSize(byte) for every
\* other value when the mapper and RAM-size bytes are valid.
C31_RomSize ==
    out.op = "parse" =>
        LET b == args.header[\h47]
            h48 == args.header[\h48]
            r == out.result
        IN  (C19_Mapper(b) # "none" /\ C31_RamValid(b, args.header[\h49]))
            => IF h48 \in 0..8
               THEN r.ok /\ r.rom_size = 32 * 1024 * h48
               ELSE r = HeaderError("UnknownROMSize", h48)

\* A type with RAM and ROM-size byte 8 parsed to 256 KiB.
C31_Witness ==
    /\ out.op = "parse"
    /\ args.header[\h47] = \h1B /\ args.header[\h48] = 8
    /\ out.result.ok
    /\ out.result.rom_size = 262144

\* The RAM size of each valid code.
C32_Size == [c \in 2..5 |-> <<8, 32, 128, 64>>[c - 1] * 1024]

\* C32: header parse sets ram_size to 256 for MBC2 and MBC7 regardless of
\* byte 0x49; otherwise, when the cartridge type has RAM, to 8/32/128/64 KiB
\* for byte 0x49 = 2/3/4/5 and returns UnknownRAMSize(byte) for any other
\* value; when the cartridge type has no RAM, ram_size is 0 and byte 0x49
\* is never an error.
C32_RamSize ==
    out.op = "parse" =>
        LET b == args.header[\h47]
            h49 == args.header[\h49]
            rom_ok == args.header[\h48] \in 0..8
            r == out.result
            size == IF C32_Fixed(b) THEN 256
                    ELSE IF b \in C19_Ram THEN C32_Size[h49]
                    ELSE 0
        IN  C19_Mapper(b) # "none"
            => IF C31_RamValid(b, h49)
               THEN /\ rom_ok => (r.ok /\ r.ram_size = size)
                    /\ ~rom_ok => r = HeaderError("UnknownROMSize", args.header[\h48])
               ELSE r = HeaderError("UnknownRAMSize", h49)

\* A type with RAM and RAM-size byte 4 parsed to 128 KiB.
C32_Witness ==
    /\ out.op = "parse"
    /\ args.header[\h47] = \h1E /\ args.header[\h49] = 4
    /\ out.result.ok
    /\ out.result.ram_size = 131072

----------------------------------------------------------------------------
(* The register devices and fixed blocks driven directly through
   set_data_lines / read_out, as the decoder does once it has resolved an
   address to them. *)

\* set_data_lines(address, true, data) on the named device
DeviceWriteOp(dev, address, data) ==
    /\ status = "running"
    /\ LET r == DeviceWrite(io, dev, address, data) IN
       /\ io' = r.io
       /\ status' = After(r.panic)
    /\ out' = [NoOut EXCEPT !.op = "device_write", !.address = address,
                            !.data = data, !.device = dev]
    /\ UNCHANGED <<cart, args, hist, build, emu>>

\* read_out() on the named device that also clears what it has read.
DeviceReadOp_clearing(dev, address) ==
    /\ status = "running"
    /\ LET v == DeviceRead(io, dev, address) IN
       /\ status' = After(v = PANIC)
       /\ out' = [NoOut EXCEPT !.op = "device_read", !.address = address,
                               !.value = v, !.device = dev]
    /\ io' = DeviceWrite(io, dev, address, 0).io
    /\ UNCHANGED <<cart, args, hist, build, emu>>

\* set_data_lines(address, false, _) then read_out() on the named device
DeviceReadOp(dev, address) ==
    /\ status = "running"
    /\ LET v == DeviceRead(io, dev, address) IN
       /\ status' = After(v = PANIC)
       /\ out' = [NoOut EXCEPT !.op = "device_read", !.address = address,
                               !.value = v, !.device = dev]
    /\ UNCHANGED <<io, cart, args, hist, build, emu>>

----------------------------------------------------------------------------
(* The OAM-DMA register: writes and reads through the bus and at the
   register itself, with SoC ticks in between. *)

OamDmaBytes == {\h00, \h5A, \hC0, \hFF}
OamDmaAddresses == {\h0000, \hA000, \hC000, \hFF46, HRAM_START, \hFFFF}

InitOamDma ==
    /\ io \in {IONew(m) : m \in Model}
    /\ cart = BusCart
    /\ args = NoArgs
    /\ out = NoOut
    /\ hist = NoHist
    /\ build = "release"
    /\ status = "running"
    /\ emu = EmulatorNew

NextOamDma ==
    \/ \E v \in OamDmaBytes : BusWrite(\hFF46, v)
    \/ \E a \in OamDmaAddresses : BusRead(a)
    \/ \E v \in OamDmaBytes : DeviceWriteOp("oam_dma", \hFF46, v)
    \/ DeviceReadOp("oam_dma", \hFF46)
    \/ \E high \in BOOLEAN : TickSoc(high)

SpecOamDma == InitOamDma /\ [][NextOamDma]_vars

C33_Reaches(o, kind) ==
    o.device = "oam_dma" /\ o.op \in {kind, "device_" \o kind}

\* C33: a write of v that reaches the OAM-DMA register leaves v * 256 as the
\* start address and the in-progress flag set; a read of the register returns
\* the high byte of the start address; and no other step changes the
\* register, so a read returns the byte written last.
C33_OamDmaLatch ==
    [][ /\ C33_Reaches(out', "write")
            => io'.registers.oam_dma =
                   [address |-> out'.data * 256, in_progress |-> TRUE]
        /\ C33_Reaches(out', "read")
            => out'.value = io.registers.oam_dma.address \div 256
        /\ ~C33_Reaches(out', "write")
            => io'.registers.oam_dma = io.registers.oam_dma ]_vars

C33_Witness ==
    /\ C33_Reaches(out, "read")
    /\ out.value = \hC0
    /\ io.registers.oam_dma = [address |-> \hC000, in_progress |-> TRUE]

\* C36: once the in-progress flag of the OAM-DMA register is set, no bus
\* read, bus write or tick clears it; from then on a bus access never
\* resolves to the OAM-DMA register, and on a monochrome model every bus read
\* outside HighRAM returns 0xFF.
C36_InProgressMonotone ==
    [][ io.registers.oam_dma.in_progress
        => /\ io'.registers.oam_dma.in_progress
           /\ out'.op \in {"read", "write"} => out'.device # "oam_dma"
           /\ (/\ ~is_cgb(io.model)
               /\ out'.op = "read"
               /\ ~Within(out'.address, HRAM_START, HRAM_END))
              => out'.value = \hFF ]_vars

C36_Witness ==
    /\ io.registers.oam_dma.in_progress
    /\ ~is_cgb(io.model)
    /\ out.op = "read"
    /\ out.address = \h0000
    /\ out.device = "no_access"
    /\ out.value = \hFF

----------------------------------------------------------------------------
(* The joypad register: the embedder sets the public input fields, the
   program writes and reads 0xFF00. *)

JoypadDpad == <<"right", "left", "up", "down">>
JoypadButtons == <<"a", "b", "select", "start">>
JoypadInputs == {JoypadDpad[n] : n \in 1..4} \cup {JoypadButtons[n] : n \in 1..4}
JoypadWrites == {\h00, \h0F, \h10, \h20, \h30, \hCF, \hFF}

\* An assignment to one of the public input fields of JoypadData.
SetJoypadInput(name, pressed) ==
    /\ status = "running"
    /\ io' = [io EXCEPT !.registers.joypad_data[name] = pressed]
    /\ out' = [NoOut EXCEPT !.op = "set_input", !.data = IF pressed THEN 1 ELSE 0]
    /\ UNCHANGED <<cart, args, hist, build, status, emu>>

InitJoypad ==
    /\ io \in {IONew(m) : m \in Model}
    /\ cart = BusCart
    /\ args = NoArgs
    /\ out = NoOut
    /\ hist = NoHist
    /\ build = "release"
    /\ status = "running"
    /\ emu = EmulatorNew

NextJoypad ==
    \/ \E name \in JoypadInputs, pressed \in BOOLEAN : SetJoypadInput(name, pressed)
    \/ \E v \in JoypadWrites : BusWrite(\hFF00, v)
    \/ BusRead(\hFF00)

SpecJoypad == InitJoypad /\ [][NextJoypad]_vars

C34_Pow2 == <<1, 2, 4, 8>>

\* C34: a read of the joypad register has bit n of the low nibble clear
\* exactly when the n-th input of a selected group is pressed, so with
\* neither group selected the low nibble is 0xF whatever is pressed; a write
\* sets the two select flags from bits 4 and 5 and changes nothing else.
C34_Joypad ==
    [][ LET j == io.registers.joypad_data IN
        /\ (out'.op = "read" /\ out'.device = "joypad_data")
           => /\ \A n \in 1..4 :
                    (And(out'.value, C34_Pow2[n]) = 0)
                    <=> \/ j.select_dpad /\ j[JoypadDpad[n]]
                        \/ j.select_buttons /\ j[JoypadButtons[n]]
              /\ (~j.select_dpad /\ ~j.select_buttons)
                    => And(out'.value, \h0F) = \h0F
              /\ io' = io
        /\ (out'.op = "write" /\ out'.device = "joypad_data")
           => io' = [io EXCEPT !.registers.joypad_data =
                        [j EXCEPT !.select_dpad = And(out'.data, \h10) # 0,
                                  !.select_buttons = And(out'.data, \h20) # 0]]
      ]_vars

C34_Witness ==
    LET j == io.registers.joypad_data IN
    /\ out.op = "read" /\ out.device = "joypad_data"
    /\ j.select_dpad /\ ~j.select_buttons
    /\ j.left /\ j.a /\ ~j.right /\ ~j.up /\ ~j.down
    /\ out.value = \h1D

----------------------------------------------------------------------------
(* The boot ROM block, read and written through the bus and at the block
   itself, in both build profiles. *)

BootROMAddresses ==
    {\h0000, \h00FF, \h0100, \h01FF, \h0200, \h08FF, \h0900, \hFFFF}
BootROMBytes == {\h00, \hA5}

InitBootROM ==
    /\ io \in {[IONew(m) EXCEPT !.registers.disable_bootrom.byte = b] :
                  m \in Model, b \in {0, 1}}
    /\ cart = BusCart
    /\ args = NoArgs
    /\ out = NoOut
    /\ hist = NoHist
    /\ build \in Builds
    /\ status = "running"
    /\ emu = EmulatorNew

NextBootROM ==
    \/ \E a \in BootROMAddresses, v \in BootROMBytes : BusWrite(a, v)
    \/ \E a \in BootROMAddresses : BusRead(a)
    \/ \E a \in BootROMAddresses, v \in BootROMBytes :
            DeviceWriteOp("boot_rom", a, v)
    \/ \E a \in BootROMAddresses : DeviceReadOp("boot_rom", a)

SpecBootROM == InitBootROM /\ [][NextBootROM]_vars

\* C35: a write to the boot ROM changes nothing and does not fail; a read
\* inside 0x000-0x0FF or 0x200-0x8FF returns the backing byte of the low or
\* high region; a read at any other address returns 0xFF and does not fail.
C35_BootROM ==
    [][ /\ (out'.device = "boot_rom" /\ out'.op \in {"write", "device_write"})
           => io' = io /\ status' = "running"
        /\ (out'.device = "boot_rom" /\ out'.op \in {"read", "device_read"})
           => /\ status' = "running"
              /\ out'.value =
                    IF out'.address <= \h0FF THEN BootROMData(out'.address)
                    ELSE IF Within(out'.address, \h200, \h8FF)
                    THEN BootROMData(\h100 + (out'.address - \h200))
                    ELSE \hFF ]_vars

\* C37: in every Mapper3 state reached through bus writes, set_rtc and
\* set_latched_rtc, a selector that holds an RTC sub-register implies that
\* both the live clock and the latched snapshot are present, and no access
\* has failed on an absent one.
C37_SnapshotsPresent ==
    /\ cart.ram_mode.tag # "RAMBank" => cart.rtc.some /\ cart.latched_rtc.some
    /\ status = "running"

----------------------------------------------------------------------------
(* The Mapper5 ROM-bank register on ROMs of each size the header can
   declare up to 128 KiB. *)

\* ROM-size bytes: 32, 64, 96 and 128 KiB, that is 2, 4, 6 and 8 banks.
BankRomCodes == {1, 2, 3, 4}
BankAddresses == {\h2000, \h2FFF, \h3000, \h3FFF}
BankData == {\h00, \h01, \h02, \h03, \h04, \h05, \h06, \h07, \hFF}

InitBanks ==
    /\ io = IONew("DMG")
    /\ args = NoArgs
    /\ cart \in {MBC5_new(RomImage(\h8000 * k, \h19, k, 0), 0).cart :
                    k \in BankRomCodes}
    /\ out = NoOut
    /\ hist = NoHist
    /\ build = "release"
    /\ status = "running"
    /\ emu = EmulatorNew

NextBanks ==
    \/ \E a \in BankAddresses, d \in BankData : MapperWrite(a, d)
    \/ \E a \in {\h4000, \h7FFF} : MapperRead(a)

SpecBanks == InitBanks /\ [][NextBanks]_vars

\* The bank numbers the register of c can hold after writes to the two
\* bank-select windows: the high write replaces bit 8 and the low write bits
\* 0-7, so one write of each, at most, gives every value any sequence gives.
C38_Selectable(c) ==
    LET high == {c.rom_bank} \cup {MBC5_rom_bank_high(c, d) : d \in 0..255}
    IN  high \cup {MBC5_rom_bank_low([c EXCEPT !.rom_bank = r], d) :
                        r \in high, d \in 0..255}

\* C38: on Mapper5, for every ROM the constructor accepts, every bank index
\* in 0 .. rom_bank_count - 1 can be selected by writes to the two
\* bank-select windows.
C38_EveryBankSelectable ==
    cart.kind = "MBC5"
    => \A b \in 0..(cart.rom_bank_count - 1) : b \in C38_Selectable(cart)

----------------------------------------------------------------------------
(* validate and the constructors on ROM buffers of lengths around the
   header's end and around whole 32 KiB units. *)

\* Empty, one byte short of a header, just a header, one 16 KiB bank, and
\* lengths at and next to 32, 64 and 96 KiB.
RomLengthCases == {0, \h14F, \h150, \h4000, \h8000, \h8001, \h10000, \h18000}
RomLengthTypes == {\h00, \h05, \h11, \h19}
RomLengthCodes == {0, 1, 2, 3, 9}

InitRomLength ==
    /\ io = IONew("DMG")
    /\ cart = NoCart
    /\ args \in {[rom |-> RomImage(len, h47, h48, 0), ram_len |-> rl,
                 rtc |-> None] :
                    len \in RomLengthCases, h47 \in RomLengthTypes,
                    h48 \in RomLengthCodes, rl \in {0, \h100}}
    /\ out = NoOut
    /\ hist = NoHist
    /\ build = "release"
    /\ status = "running"
    /\ emu = EmulatorNew

SpecRomLength == InitRomLength /\ [][NextConstruct]_vars

\* C39: whenever validate or a constructor succeeds, the ROM is a non-zero
\* multiple of 32 KiB long, its ROM-size byte is not 0, and the mapper built
\* owns that ROM; so a ROM with ROM-size byte 0 or shorter than 0x150 bytes
\* is never accepted.
C39_RomLength ==
    /\ (out.op \in {"validate", "new"} /\ out.result = "Ok")
        => /\ args.rom.len >= 32 * 1024
           /\ args.rom.len % (32 * 1024) = 0
           /\ args.rom.h48 # 0
    /\ cart # NoCart
        => /\ cart.rom = args.rom
           /\ cart.rom.len >= 32 * 1024
           /\ cart.rom.len % (32 * 1024) = 0

C39_Witness ==
    /\ out.op = "new" /\ out.result = "Ok"
    /\ cart # NoCart /\ cart.kind = "MBC5"
    /\ cart.rom.len = \h18000 /\ cart.rom.h48 = 3

----------------------------------------------------------------------------
(* Reads interleaved with writes on every kind of device: the four mappers,
   the fixed blocks and the register devices. *)

ReadCarts ==
    { BusCart,
      MBC2_new(RomImage(\h8000, \h05, 1, 0), \h100).cart,
      MBC3_new(RomImage(\h8000, \h10, 1, 3), \h8000, None).cart,
      MBC5_new(RomImage(\h8000, \h1A, 1, 2), \h2000).cart }

\* RAM enable, ROM bank, RAM bank or RTC selector, latch, a byte of RAM.
ReadCartWrites == {<<\h0000, \h0A>>, <<\h2100, \h01>>, <<\h4000, \h08>>,
                   <<\hA000, \h35>>}

\* <<device, address>> for each fixed block and register device.
ReadDevices ==
    { <<"boot_rom", \h0000>>, <<"video_ram", \h8000>>, <<"work_ram", \hC000>>,
      <<"oam", \hFE00>>, <<"high_ram", \hFF80>>, <<"joypad_data", \hFF00>>,
      <<"timer_div", \hFF05>>, <<"interrupts", \hFF0F>>, <<"lcd", \hFF40>>,
      <<"lcd", \hFF41>>, <<"oam_dma", \hFF46>>, <<"disable_bootrom", \hFF50>>,
      <<"video_ram_bank", \hFF4F>>, <<"work_ram_bank", \hFF70>>,
      <<"object_priority", \hFF6C>>, <<"audio", \hFF10>>, <<"no_access", \hFEA0>> }

ReadDeviceWrites ==
    {<<"video_ram", \h8000>>, <<"joypad_data", \hFF00>>, <<"timer_div", \hFF05>>}

InitReads ==
    /\ io \in {IONew(m) : m \in Model}
    /\ cart \in ReadCarts
    /\ args = NoArgs
    /\ out = NoOut
    /\ hist = NoHist
    /\ build = "release"
    /\ status = "running"
    /\ emu = EmulatorNew

NextReads ==
    \/ \E w \in ReadCartWrites : MapperWrite(w[1], w[2])
    \/ \E a \in MapperReads : MapperRead(a)
    \/ \E d \in ReadDeviceWrites : DeviceWriteOp(d[1], d[2], \h31)
    \/ \E d \in ReadDevices : DeviceReadOp(d[1], d[2])

SpecReads == InitReads /\ [][NextReads]_vars

====
